---- MODULE Spec2Model ----
(***************************************************************************)
(* Invoicely-Pro: the new-invoice form (NewInvoice), the invoices page     *)
(* (Invoices) with its invoice editor (InvoiceEditor), and the backend     *)
(* tables invoices / invoice_items they write to.                          *)
(*                                                                         *)
(* Numbers.  JavaScript numbers are modelled as exact fixed-point values:  *)
(*   - what the user types (quantity, rate, tax rate) is kept in           *)
(*     hundredths: 1 is 100, 0.5 is 50 (the inputs' step is 0.01);         *)
(*   - money (amount, subtotal, tax amount, total) is kept in millionths:  *)
(*     quantity * rate of two values in hundredths has four fractional     *)
(*     digits, and a whole tax percentage of it has six.                   *)
(* The typed tax rates of the model are whole percentages, so no division  *)
(* below truncates; IEEE-754 rounding is not modelled.                     *)
(*                                                                         *)
(* Scheduling.  One user, one browser tab.  A handler runs to its next     *)
(* await in one step; every backend request then returns data or an error  *)
(* in a later step.  While a save is in flight the user's further form     *)
(* events are not modelled: the handlers captured items and totals in      *)
(* their closure when they were called, so such events cannot change the   *)
(* requests of the save in flight.                                         *)
(*                                                                         *)
(* Runs.  A run holds at most MaxSaves save attempts (a call of            *)
(* NewInvoice.handleSave or InvoiceEditor.handleSave with every request it *)
(* sends) and ends when the last of them has returned.  A run starts from  *)
(* the empty backend, or from a backend state an earlier run of the        *)
(* new-invoice form has left (StoredStates; SpecCreate reaches each).      *)
(*                                                                         *)
(* SpecCalc applies calculateTotals, through the render that calls it, to  *)
(* forms whose items and tax rate are drawn from CalcInputs.               *)
(*                                                                         *)
(* Further specifications over the same variables, one per part of the     *)
(* application:                                                            *)
(*   SpecView     the invoice viewer of the Invoices page: status change,  *)
(*                delete, download and print;                              *)
(*   SpecPage     the Invoices page with two stored invoices: viewer and   *)
(*                editor opened in turn, and the viewer's X button while   *)
(*                a status update is in flight;                            *)
(*   SpecApp      the sign-in form, the Settings page and the invoice      *)
(*                pages, with every request returning eventually;          *)
(*   SpecBackend  the tables with their row-level policies, foreign keys   *)
(*                and cascades, under the requests of two users;           *)
(*   SpecSettings the Settings page in two sessions of one user;           *)
(*   SpecAuth     the sign-in form;                                        *)
(*   SpecRender   the invoice document in both page sizes, for the time    *)
(*                zones of TimeZones;                                      *)
(*   SpecClients  the client form of the Clients page and the "New Client" *)
(*                modal of NewInvoice.                                     *)
(* A nullable text column holds Null or a string.                          *)
(***************************************************************************)
EXTENDS Integers, Sequences, FiniteSets, TLC

\* ------------------------------------------------------------- bounds
MaxItems == 2
MaxInvoices == 1
MaxClock == 1
MaxSaves == 1

\* ------------------------------------------------- units of the numbers
\* Typed numbers are in hundredths (step="0.01"); a percentage divides by 100.
\* Money is in units of 1 / (Hundredths * Hundredths * PerCent).
Hundredths == 100

PerCent == 100

None == [none |-> TRUE]

\* user!.id of the signed-in user of the pages.
User == "A"

\* ------------------------------------------------------- typed strings
\* A string is a sequence of one-character strings.
Digits == <<"0", "1", "2", "3", "4", "5", "6", "7", "8", "9">>

IsDigit(c) == \E i \in 1..10 : Digits[i] = c

DigitVal(c) == (CHOOSE i \in 1..10 : Digits[i] = c) - 1

RECURSIVE DigitPrefixLen(_)
DigitPrefixLen(s) ==
  IF s = <<>> \/ ~IsDigit(Head(s)) THEN 0 ELSE 1 + DigitPrefixLen(Tail(s))

RECURSIVE DigitsValue(_, _)
DigitsValue(s, acc) ==
  IF s = <<>> THEN acc ELSE DigitsValue(Tail(s), acc * 10 + DigitVal(Head(s)))

Drop(s, n) == SubSeq(s, n + 1, Len(s))

Take(s, n) == SubSeq(s, 1, n)

\* parseFloat: an optional sign, digits, an optional "." and digits; the
\* longest such prefix is the number, and NaN if it holds no digit.  The
\* result is in hundredths (the first two fractional digits; the typed
\* strings of the model have no more).
ParseFloat(s) ==
  LET neg   == s # <<>> /\ Head(s) = "-"
      body  == IF s # <<>> /\ Head(s) \in {"-", "+"} THEN Tail(s) ELSE s
      n     == DigitPrefixLen(body)
      rest  == Drop(body, n)
      dot   == rest # <<>> /\ Head(rest) = "."
      fr    == IF dot THEN Tail(rest) ELSE <<>>
      m     == DigitPrefixLen(fr)
      f2    == Take(fr, IF m < 2 THEN m ELSE 2)
      fracv == IF Len(f2) = 0 THEN 0
               ELSE IF Len(f2) = 1 THEN 10 * DigitsValue(f2, 0)
               ELSE DigitsValue(f2, 0)
      mag   == DigitsValue(Take(body, n), 0) * Hundredths + fracv
  IN  IF n = 0 /\ m = 0 THEN [nan |-> TRUE, v |-> 0]
      ELSE [nan |-> FALSE, v |-> IF neg THEN 0 - mag ELSE mag]

\* `x || 0`: NaN and 0 are falsy.
OrZero(p) == IF p.nan \/ p.v = 0 THEN 0 ELSE p.v

\* The value of an <input type="number">: the typed text when it is a
\* number, the empty string otherwise.
NumberInputValue(typed) ==
  LET body == IF typed # <<>> /\ Head(typed) = "-" THEN Tail(typed) ELSE typed
      n    == DigitPrefixLen(body)
      rest == Drop(body, n)
      fr   == IF rest # <<>> /\ Head(rest) = "." THEN Tail(rest) ELSE rest
      m    == DigitPrefixLen(fr)
  IN  IF (n > 0 \/ m > 0) /\ (rest = <<>> \/ (Head(rest) = "." /\ m > 0))
         /\ Drop(fr, IF rest # <<>> /\ Head(rest) = "." THEN m ELSE 0) = <<>>
      THEN typed ELSE <<>>

\* What the user types into a quantity field, a rate field and the tax field.
TypedQuantities == { <<>>, <<"a", "b">>, <<"-", "1">>, <<"0", ".", "5">> }

TypedRates == { <<>>, <<"x">>, <<"2">> }

TypedTaxRates == { <<>>, <<"1", "0">> }

TypedDescriptions == { "d" }

\* The one client of the signed-in user (clients are not created here).
ClientIds == { "c1" }

TypedTitles == { "", "T" }

\* Variant: a third save button.
Statuses_withVoid == { "draft", "sent", "void" }

Statuses == { "draft", "sent" }

\* CHECK (status IN ('draft', 'sent', 'paid', 'overdue'))
StatusCheck == { "draft", "sent", "paid", "overdue" }

\* The options of the viewer's status select.
StatusOptions == { "draft", "sent", "paid", "overdue" }

\* ----------------------------------------------------------- line items
InitialId == [src |-> "literal", n |-> 1]

ClockId(t) == [src |-> "clock", n |-> t]

UuidId(k) == [src |-> "uuid", n |-> k]

\* quantity * rate, both in hundredths, as money.
Times(quantity, rate) == quantity * rate * PerCent

InitialItems ==
  << [id |-> InitialId, description |-> "", quantity |-> 1 * Hundredths,
      rate |-> 0, amount |-> 0] >>

\* Variant: a sum that stops after the first item.
SumAmounts_firstOnly(items, sum) ==
  IF items = <<>> THEN sum ELSE sum + Head(items).amount

RECURSIVE SumAmounts(_, _)
SumAmounts(items, sum) ==
  IF items = <<>> THEN sum
  ELSE SumAmounts(Tail(items), sum + Head(items).amount)

\* Variant: the tax of a rate above 50 per cent is that of 50 per cent.
TaxOf_upTo50(subtotal, taxRate) ==
  ((subtotal \div PerCent)
     * (IF taxRate > 50 * Hundredths THEN 50 * Hundredths ELSE taxRate))
  \div Hundredths

\* subtotal * (taxRate / 100), taxRate in hundredths of a per cent.
TaxOf(subtotal, taxRate) == ((subtotal \div PerCent) * taxRate) \div Hundredths

\* --- NewInvoice
NewInvoice_addItem(items, t) ==
  Append(items, [id |-> ClockId(t), description |-> "",
                 quantity |-> 1 * Hundredths, rate |-> 0, amount |-> 0])

NewInvoice_removeItem(items, id) ==
  IF Len(items) > 1 THEN SelectSeq(items, LAMBDA item : item.id # id) ELSE items

NewInvoice_updateItem(items, id, field, value) ==
  [i \in 1..Len(items) |->
     IF items[i].id = id
     THEN LET updated == [items[i] EXCEPT ![field] = value]
          IN  IF field = "quantity" \/ field = "rate"
              THEN [updated EXCEPT !.amount = Times(updated.quantity, updated.rate)]
              ELSE updated
     ELSE items[i]]

NewInvoice_calculateTotals(items, taxRate) ==
  LET subtotal  == SumAmounts(items, 0)
      taxAmount == TaxOf(subtotal, taxRate)
      total     == subtotal + taxAmount
  IN  [subtotal |-> subtotal, taxAmount |-> taxAmount, total |-> total]

\* --- InvoiceEditor (the same code, a second copy)
InvoiceEditor_addItem(items, t) ==
  Append(items, [id |-> ClockId(t), description |-> "",
                 quantity |-> 1 * Hundredths, rate |-> 0, amount |-> 0])

InvoiceEditor_removeItem(items, id) ==
  IF Len(items) > 1 THEN SelectSeq(items, LAMBDA item : item.id # id) ELSE items

\* Variant: updateItem without the recomputation of amount.
InvoiceEditor_updateItem_keepsAmount(items, id, field, value) ==
  [i \in 1..Len(items) |->
     IF items[i].id = id THEN [items[i] EXCEPT ![field] = value] ELSE items[i]]

InvoiceEditor_updateItem(items, id, field, value) ==
  [i \in 1..Len(items) |->
     IF items[i].id = id
     THEN LET updated == [items[i] EXCEPT ![field] = value]
          IN  IF field = "quantity" \/ field = "rate"
              THEN [updated EXCEPT !.amount = Times(updated.quantity, updated.rate)]
              ELSE updated
     ELSE items[i]]

\* Variant: reduce starts from 0.000001 instead of 0.
InvoiceEditor_calculateTotals_seeded(items, tax_rate) ==
  LET subtotal  == SumAmounts(items, 1)
      taxAmount == TaxOf(subtotal, tax_rate)
      total     == subtotal + taxAmount
  IN  [subtotal |-> subtotal, taxAmount |-> taxAmount, total |-> total]

InvoiceEditor_calculateTotals(items, tax_rate) ==
  LET subtotal  == SumAmounts(items, 0)
      taxAmount == TaxOf(subtotal, tax_rate)
      total     == subtotal + taxAmount
  IN  [subtotal |-> subtotal, taxAmount |-> taxAmount, total |-> total]

\* The rows a save writes: the form's items without their form ids.
ItemRows(invoice_id, items) ==
  [i \in 1..Len(items) |->
     [invoice_id |-> invoice_id, description |-> items[i].description,
      quantity |-> items[i].quantity, rate |-> items[i].rate,
      amount |-> items[i].amount]]

\* ================================================================ state
VARIABLES
  now,               \* the reading Date.now() gives
  db_invoices,       \* table invoices: a set of rows
  db_invoice_items,  \* table invoice_items: its rows in created_at order
  request,           \* the backend request of a save in flight, or None
  saves,             \* the save attempts of the run so far
  NewInvoice,        \* the state of the mounted NewInvoice page, or None
  Invoices,          \* the state of the mounted Invoices page, or None
  InvoiceEditor,     \* the state of the mounted InvoiceEditor, or None
  db_clients,        \* table clients: a set of rows
  db_profiles,       \* table profiles: a set of rows
  reply,             \* what the backend answered to the last direct request
  Settings,          \* the state of the Settings page of each session
  Clients,           \* the state of the mounted Clients page, or None
  AuthForm,          \* the state of the mounted AuthForm, or None
  browser,           \* the print window, the saved files, uncaught rejections
  rendering          \* the input of a rendering and the documents made of it

\* The variables the invoice forms leave alone.
others == << db_clients, db_profiles, reply, Settings, Clients, AuthForm,
             browser, rendering >>

vars == << now, db_invoices, db_invoice_items, request, saves,
           NewInvoice, Invoices, InvoiceEditor, others >>

\* The empty client form of the Clients page and of the "New Client" modal.
ClientForm_empty ==
  [ name |-> "", email |-> "", company |-> "", address |-> "", phone |-> "" ]

\* useState initial values of NewInvoice, and its first render.
NewInvoice_mount ==
  [ selectedClient |-> "",
    invoiceData    |-> [title |-> "", taxRate |-> 0],
    items          |-> InitialItems,
    loading        |-> FALSE,
    summary        |-> NewInvoice_calculateTotals(InitialItems, 0),
    showNewClientModal |-> FALSE,
    newClient      |-> ClientForm_empty ]

\* useState initial values of Invoices; its effect calls loadInvoices.
Invoices_mount ==
  [ invoices       |-> <<>>,
    loading        |-> TRUE,
    editingInvoice |-> None,
    invoiceItems   |-> <<>>,
    client         |-> None,
    loadInvoices   |-> TRUE,
    selectedInvoice |-> None,
    profile        |-> None,
    loadProfile    |-> TRUE ]

\* useState initial values of InvoiceEditor from its props, and its first render.
InvoiceEditor_mount(invoice, initialItems) ==
  [ invoiceData |-> [title |-> invoice.title, client_id |-> invoice.client_id,
                     tax_rate |-> invoice.tax_rate],
    items       |-> initialItems,
    loading     |-> FALSE,
    summary     |-> InvoiceEditor_calculateTotals(initialItems, invoice.tax_rate) ]

\* null in a column or a field that otherwise holds a string.
Null == "<null>"

\* auth.uid() of the backend's users.
Users == { "A", "B" }

\* A client row; company, address and phone are null.
ClientRow(id, user_id) ==
  [ id |-> id, user_id |-> user_id, name |-> "n", email |-> "e",
    company |-> Null, address |-> Null, phone |-> Null ]

\* No window opened, no file saved, no rejection left uncaught.
Browser_idle ==
  [ printWindow |-> "none", printed |-> {}, saved |-> {},
    unhandledrejection |-> FALSE ]

\* The forms' world: the user has one client and no profile row; no other
\* page is mounted and nothing is being rendered.
InitOthers ==
  /\ db_clients = { ClientRow("c1", User) }
  /\ db_profiles = {}
  /\ reply = None
  /\ Settings = None
  /\ Clients = None
  /\ AuthForm = None
  /\ browser = Browser_idle
  /\ rendering = None

\* What a save of the new-invoice form writes for `items` when both of its
\* inserts succeed: the invoice row with id 1 and the item rows.
StoredBy(items, taxRate, status) ==
  LET t == NewInvoice_calculateTotals(items, taxRate)
  IN  [ invoices |-> { [ id |-> 1, user_id |-> User, client_id |-> "c1",
                         title |-> "T",
                         status |-> status, subtotal |-> t.subtotal,
                         tax_rate |-> taxRate, tax_amount |-> t.taxAmount,
                         total |-> t.total ] },
        items    |-> ItemRows(1, items) ]

\* 1 x 2.00
OneItem == NewInvoice_updateItem(InitialItems, InitialId, "rate", 2 * Hundredths)

\* 1 x 2.00 "d" and 0.5 x 2.00
TwoItems ==
  NewInvoice_updateItem(
    NewInvoice_updateItem(
      NewInvoice_updateItem(
        NewInvoice_addItem(OneItem, 0), InitialId, "description", "d"),
      ClockId(0), "rate", 2 * Hundredths),
    ClockId(0), "quantity", Hundredths \div 2)

StoredStates ==
  { StoredBy(OneItem, 10 * Hundredths, "sent"),
    StoredBy(TwoItems, 0, "draft") }

InitEmpty ==
  /\ now = 0
  /\ InitOthers
  /\ db_invoices = {}
  /\ db_invoice_items = <<>>
  /\ request = None
  /\ saves = 0
  /\ NewInvoice = None
  /\ Invoices = Invoices_mount
  /\ InvoiceEditor = None

InitStored ==
  /\ now = 0
  /\ InitOthers
  /\ \E stored \in StoredStates :
        /\ db_invoices = stored.invoices
        /\ db_invoice_items = stored.items
  /\ request = None
  /\ saves = 0
  /\ NewInvoice = None
  /\ Invoices = Invoices_mount
  /\ InvoiceEditor = None

Init == InitEmpty \/ InitStored

\* Date.now() advances, or does not, between two events.
Tick ==
  /\ now < MaxClock
  /\ now' = now + 1
  /\ UNCHANGED << others, db_invoices, db_invoice_items, request, saves,
                  NewInvoice, Invoices, InvoiceEditor >>

\* ------------------------------------------------------ NewInvoice page
\* The user acts while the run lasts and no save is in flight.
UserActs == request = None /\ saves < MaxSaves

NewInvoice_idle == NewInvoice # None /\ UserActs

\* Every setState of the form is followed by a render, which computes the
\* summary from the new state.
NewInvoice_render(state) ==
  [state EXCEPT !.summary =
     NewInvoice_calculateTotals(state.items, state.invoiceData.taxRate)]

NewInvoice_onSelectClient ==
  /\ NewInvoice_idle
  /\ \E c \in ClientIds \cup {""} :
        NewInvoice' = NewInvoice_render([NewInvoice EXCEPT !.selectedClient = c])
  /\ UNCHANGED << others, now, db_invoices, db_invoice_items, request, saves, Invoices, InvoiceEditor >>

NewInvoice_onTitle ==
  /\ NewInvoice_idle
  /\ \E t \in TypedTitles :
        NewInvoice' = NewInvoice_render([NewInvoice EXCEPT !.invoiceData.title = t])
  /\ UNCHANGED << others, now, db_invoices, db_invoice_items, request, saves, Invoices, InvoiceEditor >>

NewInvoice_onTaxRate ==
  /\ NewInvoice_idle
  /\ \E typed \in TypedTaxRates :
        NewInvoice' = NewInvoice_render(
          [NewInvoice EXCEPT !.invoiceData.taxRate =
             OrZero(ParseFloat(NumberInputValue(typed)))])
  /\ UNCHANGED << others, now, db_invoices, db_invoice_items, request, saves, Invoices, InvoiceEditor >>

NewInvoice_onAddItem ==
  /\ NewInvoice_idle
  /\ Len(NewInvoice.items) < MaxItems
  /\ NewInvoice' = NewInvoice_render(
        [NewInvoice EXCEPT !.items = NewInvoice_addItem(NewInvoice.items, now)])
  /\ UNCHANGED << others, now, db_invoices, db_invoice_items, request, saves, Invoices, InvoiceEditor >>

\* The remove button is rendered only while there is more than one item.
NewInvoice_onRemoveItem ==
  /\ NewInvoice_idle
  /\ Len(NewInvoice.items) > 1
  /\ \E i \in 1..Len(NewInvoice.items) :
        NewInvoice' = NewInvoice_render(
          [NewInvoice EXCEPT !.items =
             NewInvoice_removeItem(NewInvoice.items, NewInvoice.items[i].id)])
  /\ UNCHANGED << others, now, db_invoices, db_invoice_items, request, saves, Invoices, InvoiceEditor >>

NewInvoice_onDescription ==
  /\ NewInvoice_idle
  /\ \E i \in 1..Len(NewInvoice.items), text \in TypedDescriptions :
        NewInvoice' = NewInvoice_render(
          [NewInvoice EXCEPT !.items =
             NewInvoice_updateItem(NewInvoice.items, NewInvoice.items[i].id,
                                   "description", text)])
  /\ UNCHANGED << others, now, db_invoices, db_invoice_items, request, saves, Invoices, InvoiceEditor >>

NewInvoice_onQuantity ==
  /\ NewInvoice_idle
  /\ \E i \in 1..Len(NewInvoice.items), typed \in TypedQuantities :
        NewInvoice' = NewInvoice_render(
          [NewInvoice EXCEPT !.items =
             NewInvoice_updateItem(NewInvoice.items, NewInvoice.items[i].id,
                "quantity", OrZero(ParseFloat(NumberInputValue(typed))))])
  /\ UNCHANGED << others, now, db_invoices, db_invoice_items, request, saves, Invoices, InvoiceEditor >>

NewInvoice_onRate ==
  /\ NewInvoice_idle
  /\ \E i \in 1..Len(NewInvoice.items), typed \in TypedRates :
        NewInvoice' = NewInvoice_render(
          [NewInvoice EXCEPT !.items =
             NewInvoice_updateItem(NewInvoice.items, NewInvoice.items[i].id,
                "rate", OrZero(ParseFloat(NumberInputValue(typed))))])
  /\ UNCHANGED << others, now, db_invoices, db_invoice_items, request, saves, Invoices, InvoiceEditor >>

\* Variant: a handleSave whose calculateTotals call also resets the items.
NewInvoice_handleSave_resetsItems ==
  /\ NewInvoice_idle
  /\ NewInvoice.selectedClient # "" /\ NewInvoice.invoiceData.title # ""
  /\ Cardinality(db_invoices) < MaxInvoices
  /\ \E status \in Statuses :
       LET t == NewInvoice_calculateTotals(NewInvoice.items,
                                           NewInvoice.invoiceData.taxRate)
       IN  request' =
             [ op  |-> "NewInvoice.insert_invoice",
               row |-> [ user_id    |-> User,
                         client_id  |-> NewInvoice.selectedClient,
                         title      |-> NewInvoice.invoiceData.title,
                         status     |-> status,
                         subtotal   |-> t.subtotal,
                         tax_rate   |-> NewInvoice.invoiceData.taxRate,
                         tax_amount |-> t.taxAmount,
                         total      |-> t.total ] ]
  /\ NewInvoice' = NewInvoice_render(
        [NewInvoice EXCEPT !.loading = TRUE, !.items = InitialItems])
  /\ saves' = saves + 1
  /\ UNCHANGED << others, now, db_invoices, db_invoice_items, Invoices, InvoiceEditor >>

\* handleSave up to its first await: setLoading(true), calculateTotals, and
\* the insert into invoices is sent.  Without a selected client or a title
\* it returns at once.
NewInvoice_handleSave ==
  /\ NewInvoice_idle
  /\ NewInvoice.selectedClient # "" /\ NewInvoice.invoiceData.title # ""
  /\ Cardinality(db_invoices) < MaxInvoices
  /\ \E status \in Statuses :
       LET t == NewInvoice_calculateTotals(NewInvoice.items,
                                           NewInvoice.invoiceData.taxRate)
       IN  request' =
             [ op  |-> "NewInvoice.insert_invoice",
               row |-> [ user_id    |-> User,
                         client_id  |-> NewInvoice.selectedClient,
                         title      |-> NewInvoice.invoiceData.title,
                         status     |-> status,
                         subtotal   |-> t.subtotal,
                         tax_rate   |-> NewInvoice.invoiceData.taxRate,
                         tax_amount |-> t.taxAmount,
                         total      |-> t.total ] ]
  /\ NewInvoice' = NewInvoice_render([NewInvoice EXCEPT !.loading = TRUE])
  /\ saves' = saves + 1
  /\ UNCHANGED << others, now, db_invoices, db_invoice_items, Invoices, InvoiceEditor >>

NewId == Cardinality(db_invoices) + 1

WithId(row, id) ==
  [ id |-> id, user_id |-> row.user_id, client_id |-> row.client_id,
    title |-> row.title,
    status |-> row.status, subtotal |-> row.subtotal, tax_rate |-> row.tax_rate,
    tax_amount |-> row.tax_amount, total |-> row.total ]

\* The insert into invoices returns: the row passes the CHECK on status and
\* the foreign key to clients, is stored, and the insert of the items is
\* sent; or the error is logged and loading is cleared.
NewInvoice_invoiceInserted ==
  /\ NewInvoice # None
  /\ request # None /\ request.op = "NewInvoice.insert_invoice"
  /\ \/ /\ request.row.status \in StatusCheck
        /\ \E c \in db_clients : c.id = request.row.client_id
        /\ db_invoices' = db_invoices \cup { WithId(request.row, NewId) }
        /\ request' = [ op   |-> "NewInvoice.insert_items",
                        rows |-> ItemRows(NewId, NewInvoice.items) ]
        /\ UNCHANGED NewInvoice
     \/ /\ request' = None
        /\ NewInvoice' = NewInvoice_render([NewInvoice EXCEPT !.loading = FALSE])
        /\ UNCHANGED db_invoices
  /\ UNCHANGED << others, now, saves, db_invoice_items, Invoices, InvoiceEditor >>

\* The insert into invoice_items returns: navigate('/invoices') unmounts the
\* form and mounts the Invoices page, or the error is logged.
NewInvoice_itemsInserted ==
  /\ NewInvoice # None
  /\ request # None /\ request.op = "NewInvoice.insert_items"
  /\ request' = None
  /\ \/ /\ db_invoice_items' = db_invoice_items \o request.rows
        /\ NewInvoice' = None
        /\ Invoices' = Invoices_mount
     \/ /\ NewInvoice' = NewInvoice_render([NewInvoice EXCEPT !.loading = FALSE])
        /\ UNCHANGED << db_invoice_items, Invoices >>
  /\ UNCHANGED << others, now, saves, db_invoices, InvoiceEditor >>

\* The back arrow: navigate('/invoices').
NewInvoice_onBack ==
  /\ NewInvoice_idle
  /\ NewInvoice' = None
  /\ Invoices' = Invoices_mount
  /\ UNCHANGED << others, now, db_invoices, db_invoice_items, request, saves, InvoiceEditor >>

\* -------------------------------------------------------- Invoices page
MaxOf(S) == CHOOSE x \in S : \A y \in S : y <= x

\* A row of the page's list: of the selected columns, those a handler of
\* this model reads.
Listed(r) ==
  [ id |-> r.id, client_id |-> r.client_id, title |-> r.title,
    status |-> r.status, tax_rate |-> r.tax_rate ]

\* select ... order('created_at', { ascending: false }): ids grow with time.
RECURSIVE NewestFirst(_)
NewestFirst(rows) ==
  IF rows = {} THEN <<>>
  ELSE LET r == CHOOSE x \in rows : x.id = MaxOf({ y.id : y \in rows })
       IN  <<Listed(r)>> \o NewestFirst(rows \ {r})

\* select('*') from invoice_items of one invoice, in created_at order; every
\* row has a uuid of its own.
SelectItems(invoice_id) ==
  LET withIds == [k \in 1..Len(db_invoice_items) |->
                    [ id          |-> UuidId(k),
                      invoice_id  |-> db_invoice_items[k].invoice_id,
                      description |-> db_invoice_items[k].description,
                      quantity    |-> db_invoice_items[k].quantity,
                      rate        |-> db_invoice_items[k].rate,
                      amount      |-> db_invoice_items[k].amount ]]
      mine    == SelectSeq(withIds, LAMBDA r : r.invoice_id = invoice_id)
  IN  [k \in 1..Len(mine) |->
         [ id |-> mine[k].id, description |-> mine[k].description,
           quantity |-> mine[k].quantity, rate |-> mine[k].rate,
           amount |-> mine[k].amount ]]

\* loadInvoices returns: the list is replaced, or the error is logged; the
\* spinner goes either way.
Invoices_loadInvoices ==
  /\ Invoices # None /\ Invoices.loadInvoices
  /\ \/ Invoices' = [Invoices EXCEPT !.invoices = NewestFirst(db_invoices),
                                      !.loading = FALSE, !.loadInvoices = FALSE]
     \/ Invoices' = [Invoices EXCEPT !.loading = FALSE, !.loadInvoices = FALSE]
  /\ UNCHANGED << others, now, db_invoices, db_invoice_items, request, saves, NewInvoice, InvoiceEditor >>

\* {selectedInvoice && client && profile && <InvoiceViewer .../>}
Invoices_viewerShown ==
  /\ Invoices # None /\ ~Invoices.loading
  /\ Invoices.selectedInvoice # None
  /\ Invoices.client # None /\ Invoices.profile # None

\* The table is on screen and no modal covers it.
Invoices_tableShown ==
  /\ Invoices # None /\ ~Invoices.loading
  /\ InvoiceEditor = None /\ ~Invoices_viewerShown /\ UserActs

\* handleEditInvoice: loadInvoiceDetails sets the items and the client, or
\* logs the error of either request and sets neither; then the editor is
\* asked for, and it is rendered once a client is loaded.
Invoices_handleEditInvoice ==
  /\ Invoices_tableShown
  /\ \E i \in 1..Len(Invoices.invoices) :
       LET invoice == Invoices.invoices[i] IN
       \/ /\ Invoices' = [Invoices EXCEPT
                             !.invoiceItems = SelectItems(invoice.id),
                             !.client = [id |-> invoice.client_id],
                             !.editingInvoice = invoice]
          /\ InvoiceEditor' = InvoiceEditor_mount(invoice, SelectItems(invoice.id))
       \/ /\ Invoices' = [Invoices EXCEPT !.editingInvoice = invoice]
          /\ InvoiceEditor' =
               IF Invoices.client # None
               THEN InvoiceEditor_mount(invoice, Invoices.invoiceItems)
               ELSE None
  /\ UNCHANGED << others, now, db_invoices, db_invoice_items, request, saves, NewInvoice >>

\* The "New Invoice" link.
Invoices_onNewInvoice ==
  /\ Invoices_tableShown
  /\ Cardinality(db_invoices) < MaxInvoices
  /\ NewInvoice' = NewInvoice_mount
  /\ Invoices' = None
  /\ UNCHANGED << others, now, db_invoices, db_invoice_items, request, saves, InvoiceEditor >>

\* -------------------------------------------------------- InvoiceEditor
InvoiceEditor_idle == InvoiceEditor # None /\ UserActs

InvoiceEditor_render(state) ==
  [state EXCEPT !.summary =
     InvoiceEditor_calculateTotals(state.items, state.invoiceData.tax_rate)]

InvoiceEditor_onTaxRate ==
  /\ InvoiceEditor_idle
  /\ \E typed \in TypedTaxRates :
        InvoiceEditor' = InvoiceEditor_render(
          [InvoiceEditor EXCEPT !.invoiceData.tax_rate =
             OrZero(ParseFloat(NumberInputValue(typed)))])
  /\ UNCHANGED << others, now, db_invoices, db_invoice_items, request, saves, NewInvoice, Invoices >>

InvoiceEditor_onAddItem ==
  /\ InvoiceEditor_idle
  /\ Len(InvoiceEditor.items) < MaxItems
  /\ InvoiceEditor' = InvoiceEditor_render(
        [InvoiceEditor EXCEPT !.items = InvoiceEditor_addItem(InvoiceEditor.items, now)])
  /\ UNCHANGED << others, now, db_invoices, db_invoice_items, request, saves, NewInvoice, Invoices >>

InvoiceEditor_onRemoveItem ==
  /\ InvoiceEditor_idle
  /\ Len(InvoiceEditor.items) > 1
  /\ \E i \in 1..Len(InvoiceEditor.items) :
        InvoiceEditor' = InvoiceEditor_render(
          [InvoiceEditor EXCEPT !.items =
             InvoiceEditor_removeItem(InvoiceEditor.items, InvoiceEditor.items[i].id)])
  /\ UNCHANGED << others, now, db_invoices, db_invoice_items, request, saves, NewInvoice, Invoices >>

InvoiceEditor_onDescription ==
  /\ InvoiceEditor_idle
  /\ \E i \in 1..Len(InvoiceEditor.items), text \in TypedDescriptions :
        InvoiceEditor' = InvoiceEditor_render(
          [InvoiceEditor EXCEPT !.items =
             InvoiceEditor_updateItem(InvoiceEditor.items, InvoiceEditor.items[i].id,
                                      "description", text)])
  /\ UNCHANGED << others, now, db_invoices, db_invoice_items, request, saves, NewInvoice, Invoices >>

InvoiceEditor_onQuantity ==
  /\ InvoiceEditor_idle
  /\ \E i \in 1..Len(InvoiceEditor.items), typed \in TypedQuantities :
        InvoiceEditor' = InvoiceEditor_render(
          [InvoiceEditor EXCEPT !.items =
             InvoiceEditor_updateItem(InvoiceEditor.items, InvoiceEditor.items[i].id,
                "quantity", OrZero(ParseFloat(NumberInputValue(typed))))])
  /\ UNCHANGED << others, now, db_invoices, db_invoice_items, request, saves, NewInvoice, Invoices >>

InvoiceEditor_onRate ==
  /\ InvoiceEditor_idle
  /\ \E i \in 1..Len(InvoiceEditor.items), typed \in TypedRates :
        InvoiceEditor' = InvoiceEditor_render(
          [InvoiceEditor EXCEPT !.items =
             InvoiceEditor_updateItem(InvoiceEditor.items, InvoiceEditor.items[i].id,
                "rate", OrZero(ParseFloat(NumberInputValue(typed))))])
  /\ UNCHANGED << others, now, db_invoices, db_invoice_items, request, saves, NewInvoice, Invoices >>

\* The X button: onClose sets editingInvoice to null.
InvoiceEditor_onClose ==
  /\ InvoiceEditor_idle
  /\ InvoiceEditor' = None
  /\ Invoices' = [Invoices EXCEPT !.editingInvoice = None]
  /\ UNCHANGED << others, now, db_invoices, db_invoice_items, request, saves, NewInvoice >>

\* Variant: a handleSave that passes the subtotal as the total.
InvoiceEditor_handleSave_subtotalAsTotal ==
  /\ InvoiceEditor_idle
  /\ LET t == InvoiceEditor_calculateTotals(InvoiceEditor.items,
                                             InvoiceEditor.invoiceData.tax_rate)
     IN  request' =
           [ op    |-> "Invoices.update_invoice",
             id    |-> Invoices.editingInvoice.id,
             data  |-> [ title      |-> InvoiceEditor.invoiceData.title,
                         client_id  |-> InvoiceEditor.invoiceData.client_id,
                         tax_rate   |-> InvoiceEditor.invoiceData.tax_rate,
                         subtotal   |-> t.subtotal,
                         tax_amount |-> t.taxAmount,
                         total      |-> t.subtotal ],
             items |-> InvoiceEditor.items ]
  /\ InvoiceEditor' = InvoiceEditor_render([InvoiceEditor EXCEPT !.loading = TRUE])
  /\ saves' = saves + 1
  /\ UNCHANGED << others, now, db_invoices, db_invoice_items, NewInvoice, Invoices >>

\* InvoiceEditor.handleSave: setLoading(true), calculateTotals, and onSave =
\* Invoices.handleSaveInvoice, which sends the update of the invoice row.
InvoiceEditor_handleSave ==
  /\ InvoiceEditor_idle
  /\ LET t == InvoiceEditor_calculateTotals(InvoiceEditor.items,
                                             InvoiceEditor.invoiceData.tax_rate)
     IN  request' =
           [ op    |-> "Invoices.update_invoice",
             id    |-> Invoices.editingInvoice.id,
             data  |-> [ title      |-> InvoiceEditor.invoiceData.title,
                         client_id  |-> InvoiceEditor.invoiceData.client_id,
                         tax_rate   |-> InvoiceEditor.invoiceData.tax_rate,
                         subtotal   |-> t.subtotal,
                         tax_amount |-> t.taxAmount,
                         total      |-> t.total ],
             items |-> InvoiceEditor.items ]
  /\ InvoiceEditor' = InvoiceEditor_render([InvoiceEditor EXCEPT !.loading = TRUE])
  /\ saves' = saves + 1
  /\ UNCHANGED << others, now, db_invoices, db_invoice_items, NewInvoice, Invoices >>

\* Variant: an update that also sets the invoice back to draft.
UpdateRow_toDraft(row, data) ==
  [row EXCEPT !.title = data.title, !.client_id = data.client_id,
              !.tax_rate = data.tax_rate, !.subtotal = data.subtotal,
              !.tax_amount = data.tax_amount, !.total = data.total,
              !.status = "draft"]

\* update(data).eq('id', ...): the columns data names are set, the others
\* are kept.
UpdateRow(row, data) ==
  [row EXCEPT !.title = data.title, !.client_id = data.client_id,
              !.tax_rate = data.tax_rate, !.subtotal = data.subtotal,
              !.tax_amount = data.tax_amount, !.total = data.total]

\* Variant: a failed save that leaves the editor's loading flag set.
Invoices_saveFailed_staysBusy ==
  /\ request' = None
  /\ UNCHANGED InvoiceEditor

\* handleSaveInvoice rethrows an error; InvoiceEditor.handleSave logs it and
\* clears loading, and the editor stays open.
Invoices_saveFailed ==
  /\ request' = None
  /\ InvoiceEditor' = InvoiceEditor_render([InvoiceEditor EXCEPT !.loading = FALSE])

Invoices_invoiceUpdated ==
  /\ request # None /\ request.op = "Invoices.update_invoice"
  /\ \/ /\ db_invoices' = { IF r.id = request.id THEN UpdateRow(r, request.data) ELSE r :
                               r \in db_invoices }
        /\ request' = [ op |-> "Invoices.delete_items", id |-> request.id,
                        items |-> request.items ]
        /\ UNCHANGED InvoiceEditor
     \/ /\ Invoices_saveFailed
        /\ UNCHANGED db_invoices
  /\ UNCHANGED << others, now, saves, db_invoice_items, NewInvoice, Invoices >>

Invoices_itemsDeleted ==
  /\ request # None /\ request.op = "Invoices.delete_items"
  /\ \/ /\ db_invoice_items' =
             SelectSeq(db_invoice_items, LAMBDA r : r.invoice_id # request.id)
        /\ request' = [ op |-> "Invoices.insert_items",
                        rows |-> ItemRows(request.id, request.items) ]
        /\ UNCHANGED InvoiceEditor
     \/ /\ Invoices_saveFailed
        /\ UNCHANGED db_invoice_items
  /\ UNCHANGED << others, now, saves, db_invoices, NewInvoice, Invoices >>

\* The last request returns: loadInvoices is called (not awaited) and
\* editingInvoice is set to null, which unmounts the editor.
Invoices_itemsInserted ==
  /\ request # None /\ request.op = "Invoices.insert_items"
  /\ \/ /\ db_invoice_items' = db_invoice_items \o request.rows
        /\ request' = None
        /\ Invoices' = [Invoices EXCEPT !.loadInvoices = TRUE, !.editingInvoice = None]
        /\ InvoiceEditor' = None
     \/ /\ Invoices_saveFailed
        /\ UNCHANGED << db_invoice_items, Invoices >>
  /\ UNCHANGED << others, now, saves, db_invoices, NewInvoice >>

Next ==
  \/ Tick
  \/ NewInvoice_onSelectClient
  \/ NewInvoice_onTitle
  \/ NewInvoice_onTaxRate
  \/ NewInvoice_onAddItem
  \/ NewInvoice_onRemoveItem
  \/ NewInvoice_onDescription
  \/ NewInvoice_onQuantity
  \/ NewInvoice_onRate
  \/ NewInvoice_handleSave
  \/ NewInvoice_invoiceInserted
  \/ NewInvoice_itemsInserted
  \/ NewInvoice_onBack
  \/ Invoices_loadInvoices
  \/ Invoices_handleEditInvoice
  \/ Invoices_onNewInvoice
  \/ InvoiceEditor_onTaxRate
  \/ InvoiceEditor_onAddItem
  \/ InvoiceEditor_onRemoveItem
  \/ InvoiceEditor_onDescription
  \/ InvoiceEditor_onQuantity
  \/ InvoiceEditor_onRate
  \/ InvoiceEditor_onClose
  \/ InvoiceEditor_handleSave
  \/ Invoices_invoiceUpdated
  \/ Invoices_itemsDeleted
  \/ Invoices_itemsInserted

Spec == Init /\ [][Next]_vars

\* The runs from the empty backend alone.
SpecCreate == InitEmpty /\ [][Next]_vars

\* ------------------------------------------ Invoices page: the viewer
\* The profile loadProfile sets when the user has no profile row.
DefaultProfile ==
  [ full_name |-> "u@x", company_name |-> Null, company_address |-> Null,
    phone |-> Null, email |-> "u@x" ]

\* loadProfile returns: the profile is set, or the error is logged.
Invoices_loadProfile ==
  /\ Invoices # None /\ Invoices.loadProfile
  /\ \/ Invoices' = [Invoices EXCEPT !.profile = DefaultProfile,
                                      !.loadProfile = FALSE]
     \/ Invoices' = [Invoices EXCEPT !.loadProfile = FALSE]
  /\ UNCHANGED << others, now, db_invoices, db_invoice_items, request, saves, NewInvoice, InvoiceEditor >>

\* handleViewInvoice: loadInvoiceDetails sets the items and the client, or
\* logs the error and sets neither; then selectedInvoice is set.
Invoices_handleViewInvoice ==
  /\ Invoices_tableShown
  /\ \E i \in 1..Len(Invoices.invoices) :
       LET invoice == Invoices.invoices[i] IN
       \/ Invoices' = [Invoices EXCEPT
                          !.invoiceItems = SelectItems(invoice.id),
                          !.client = [id |-> invoice.client_id],
                          !.selectedInvoice = invoice]
       \/ Invoices' = [Invoices EXCEPT !.selectedInvoice = invoice]
  /\ UNCHANGED << others, now, db_invoices, db_invoice_items, request, saves, NewInvoice, InvoiceEditor >>

\* The viewer is on screen and no request of it is in flight.
InvoiceViewer_idle == Invoices_viewerShown /\ InvoiceEditor = None /\ UserActs

\* The X button of the viewer; it is there while handleStatusChange awaits
\* its update.
InvoiceViewer_onClose ==
  /\ Invoices_viewerShown /\ InvoiceEditor = None /\ saves < MaxSaves
  /\ IF request = None THEN TRUE ELSE request.op = "Invoices.update_status"
  /\ Invoices' = [Invoices EXCEPT !.selectedInvoice = None]
  /\ UNCHANGED << others, now, db_invoices, db_invoice_items, request, saves, NewInvoice, InvoiceEditor >>

\* onEdit: setEditingInvoice(selectedInvoice); setSelectedInvoice(null).
InvoiceViewer_onEdit ==
  /\ InvoiceViewer_idle
  /\ Invoices' = [Invoices EXCEPT !.editingInvoice = Invoices.selectedInvoice,
                                  !.selectedInvoice = None]
  /\ InvoiceEditor' = InvoiceEditor_mount(Invoices.selectedInvoice,
                                          Invoices.invoiceItems)
  /\ UNCHANGED << others, now, db_invoices, db_invoice_items, request, saves, NewInvoice >>

\* handleStatusChange(invoiceId, status) up to its await: the update is sent
\* whatever the status was and is to be; the handler keeps the
\* selectedInvoice of its render.
Invoices_handleStatusChange(invoiceId, status) ==
  /\ request' = [ op |-> "Invoices.update_status",
                  id |-> invoiceId,
                  status |-> status,
                  selectedInvoice |-> Invoices.selectedInvoice ]
  /\ UNCHANGED << others, now, db_invoices, db_invoice_items, saves, NewInvoice, Invoices, InvoiceEditor >>

\* The status select of the viewer.
InvoiceViewer_onStatusChange ==
  /\ InvoiceViewer_idle
  /\ \E status \in StatusOptions :
       Invoices_handleStatusChange(Invoices.selectedInvoice.id, status)

\* Variant: a status update that leaves the viewer's invoice as it was.
Invoices_statusChanged_listOnly ==
  /\ request.status \in StatusCheck
  /\ db_invoices' = { IF r.id = request.id
                        THEN [r EXCEPT !.status = request.status] ELSE r :
                        r \in db_invoices }
  /\ Invoices' = [Invoices EXCEPT !.loadInvoices = TRUE]

\* The update succeeded: the row is changed, loadInvoices is called and the
\* viewer's invoice, when it is the updated one, gets the status.
Invoices_statusChanged ==
  /\ request.status \in StatusCheck
  /\ db_invoices' = { IF r.id = request.id
                        THEN [r EXCEPT !.status = request.status] ELSE r :
                        r \in db_invoices }
  /\ Invoices' =
       [Invoices EXCEPT
          !.loadInvoices = TRUE,
          !.selectedInvoice =
             IF request.selectedInvoice # None
                /\ request.selectedInvoice.id = request.id
             THEN [request.selectedInvoice EXCEPT !.status = request.status]
             ELSE Invoices.selectedInvoice]

\* The update of the status returns: it succeeded, or the error (of the
\* request, or of the CHECK on status) is logged.
Invoices_statusUpdated ==
  /\ request # None /\ request.op = "Invoices.update_status"
  /\ request' = None
  /\ \/ Invoices_statusChanged
     \/ UNCHANGED << db_invoices, Invoices >>
  /\ UNCHANGED << others, now, db_invoice_items, saves, NewInvoice, InvoiceEditor >>

\* handleDeleteInvoice(invoiceId) up to its await: it asks confirm() and
\* returns when the user cancels, else sends the delete.
Invoices_handleDeleteInvoice(invoiceId, confirm) ==
  request' = IF confirm
             THEN [ op |-> "Invoices.delete_invoice", id |-> invoiceId ]
             ELSE request

\* The delete button of a table row, with the user's answer to confirm().
Invoices_onDeleteAnswered(confirm) ==
  /\ Invoices_tableShown
  /\ \E i \in 1..Len(Invoices.invoices) :
       Invoices_handleDeleteInvoice(Invoices.invoices[i].id, confirm)
  /\ UNCHANGED << others, now, db_invoices, db_invoice_items, saves, NewInvoice, Invoices, InvoiceEditor >>

Invoices_onDelete == \E confirm \in BOOLEAN : Invoices_onDeleteAnswered(confirm)

\* onDelete of the viewer, with the user's answer to confirm():
\* handleDeleteInvoice(selectedInvoice.id) runs to its confirm() or to its
\* await; then setSelectedInvoice(null) either way.
InvoiceViewer_onDeleteAnswered(confirm) ==
  /\ InvoiceViewer_idle
  /\ Invoices_handleDeleteInvoice(Invoices.selectedInvoice.id, confirm)
  /\ Invoices' = [Invoices EXCEPT !.selectedInvoice = None]
  /\ UNCHANGED << others, now, db_invoices, db_invoice_items, saves, NewInvoice, InvoiceEditor >>

InvoiceViewer_onDelete ==
  \E confirm \in BOOLEAN : InvoiceViewer_onDeleteAnswered(confirm)

\* Variant: a delete of an invoice that leaves its items.
DeleteInvoice_keepsItems(id) ==
  [ invoices |-> { r \in db_invoices : r.id # id },
    items    |-> db_invoice_items ]

\* DELETE FROM invoices WHERE id = ...; invoice_items.invoice_id REFERENCES
\* invoices(id) ON DELETE CASCADE.
DeleteInvoice(id) ==
  [ invoices |-> { r \in db_invoices : r.id # id },
    items    |-> SelectSeq(db_invoice_items, LAMBDA r : r.invoice_id # id) ]

\* The delete returns: the row and its items are gone and loadInvoices is
\* called, or the error is logged.
Invoices_invoiceDeleted ==
  /\ request # None /\ request.op = "Invoices.delete_invoice"
  /\ request' = None
  /\ \/ /\ db_invoices' = DeleteInvoice(request.id).invoices
        /\ db_invoice_items' = DeleteInvoice(request.id).items
        /\ Invoices' = [Invoices EXCEPT !.loadInvoices = TRUE]
     \/ UNCHANGED << db_invoices, db_invoice_items, Invoices >>
  /\ UNCHANGED << others, now, saves, NewInvoice, InvoiceEditor >>

\* The paper sizes of the download and print menus.
Formats == { "A4", "A5" }

\* handleDownload: with an invoice, a client and a profile it awaits
\* downloadInvoicePDF, else it returns; the handler has no try/catch.
Invoices_handleDownload(format) ==
  /\ IF Invoices.selectedInvoice = None \/ Invoices.client = None
        \/ Invoices.profile = None
     THEN UNCHANGED request
     ELSE request' = [ op |-> "downloadInvoicePDF", format |-> format,
                       id |-> Invoices.selectedInvoice.id ]
  /\ UNCHANGED << others, now, db_invoices, db_invoice_items, saves, NewInvoice, Invoices, InvoiceEditor >>

\* The download menu of the viewer.
InvoiceViewer_onDownload ==
  /\ InvoiceViewer_idle
  /\ \E format \in Formats : Invoices_handleDownload(format)

\* Variant: a download that ends with a reload of the list.
Invoices_downloaded_reloads ==
  /\ request # None /\ request.op = "downloadInvoicePDF"
  /\ request' = None
  /\ browser' = [browser EXCEPT
                    !.saved = @ \cup { [id |-> request.id,
                                        format |-> request.format] }]
  /\ Invoices' = [Invoices EXCEPT !.invoices = <<>>, !.loadInvoices = TRUE]
  /\ UNCHANGED << db_clients, db_profiles, reply, Settings, Clients, AuthForm, rendering >>
  /\ UNCHANGED << now, db_invoices, db_invoice_items, saves, NewInvoice, InvoiceEditor >>

\* pdf(doc).toBlob() resolves and the link is clicked: the file is saved.
\* Or it rejects: downloadInvoicePDF rejects, so does the promise of
\* handleDownload, which nothing awaits or catches.
Invoices_downloaded ==
  /\ request # None /\ request.op = "downloadInvoicePDF"
  /\ request' = None
  /\ \/ browser' = [browser EXCEPT
                       !.saved = @ \cup { [id |-> request.id,
                                           format |-> request.format] }]
     \/ browser' = [browser EXCEPT !.unhandledrejection = TRUE]
  /\ UNCHANGED << db_clients, db_profiles, reply, Settings, Clients, AuthForm, rendering >>
  /\ UNCHANGED << now, db_invoices, db_invoice_items, saves, NewInvoice, Invoices, InvoiceEditor >>

\* handlePrint: printInvoice(format) opens a window; with a window and the
\* #invoice-content element of the viewer it writes, prints and closes;
\* with no window it returns.
InvoiceViewer_onPrint ==
  /\ InvoiceViewer_idle
  /\ \E format \in Formats, printWindow \in { "window", "null" } :
       browser' = [browser EXCEPT
                     !.printWindow = printWindow,
                     !.printed = IF printWindow = "window"
                                 THEN @ \cup { format } ELSE @]
  /\ UNCHANGED << db_clients, db_profiles, reply, Settings, Clients, AuthForm, rendering >>
  /\ UNCHANGED << now, db_invoices, db_invoice_items, request, saves, NewInvoice, Invoices, InvoiceEditor >>

\* The error texts on screen.  AuthForm renders its error state; NewInvoice,
\* Invoices, InvoiceViewer, InvoiceEditor, Clients and Settings have no
\* error element and call no alert.
ErrorsShown ==
  IF AuthForm # None /\ AuthForm.error # "" THEN { AuthForm.error } ELSE {}

\* The Invoices page with its viewer, and the new-invoice form with its
\* item list left as it is mounted.
NextView ==
  \/ Invoices_loadInvoices
  \/ Invoices_loadProfile
  \/ Invoices_handleViewInvoice
  \/ InvoiceViewer_onClose
  \/ InvoiceViewer_onEdit
  \/ InvoiceEditor_onClose
  \/ InvoiceViewer_onStatusChange
  \/ Invoices_statusUpdated
  \/ Invoices_onDelete
  \/ InvoiceViewer_onDelete
  \/ Invoices_invoiceDeleted
  \/ InvoiceViewer_onDownload
  \/ Invoices_downloaded
  \/ InvoiceViewer_onPrint
  \/ Invoices_onNewInvoice
  \/ NewInvoice_onSelectClient
  \/ NewInvoice_onTitle
  \/ NewInvoice_handleSave
  \/ NewInvoice_invoiceInserted
  \/ NewInvoice_itemsInserted
  \/ NewInvoice_onBack

SpecView == Init /\ [][NextView]_vars

\* --------------------------------- Invoices page: two invoices in the list
\* What two saves of the new-invoice form have written: invoice 1 of client
\* c1 with one item, invoice 2 of client c2 with two items.
TwoInvoices ==
  LET first  == StoredBy(OneItem, 10 * Hundredths, "sent")
      t      == NewInvoice_calculateTotals(TwoItems, 0)
      second == [ id |-> 2, user_id |-> User, client_id |-> "c2",
                  title |-> "T", status |-> "draft", subtotal |-> t.subtotal,
                  tax_rate |-> 0, tax_amount |-> t.taxAmount,
                  total |-> t.total ]
  IN  [ invoices |-> first.invoices \cup { second },
        items    |-> first.items \o ItemRows(2, TwoItems) ]

InitPage ==
  /\ now = 0
  /\ db_clients = { ClientRow("c1", User), ClientRow("c2", User) }
  /\ db_invoices = TwoInvoices.invoices
  /\ db_invoice_items = TwoInvoices.items
  /\ db_profiles = {}
  /\ request = None /\ reply = None /\ saves = 0
  /\ NewInvoice = None /\ InvoiceEditor = None
  /\ Invoices = Invoices_mount
  /\ Settings = None /\ Clients = None /\ AuthForm = None
  /\ browser = Browser_idle
  /\ rendering = None

\* The Invoices page with its viewer and its editor.
NextPage ==
  \/ Invoices_loadInvoices
  \/ Invoices_loadProfile
  \/ Invoices_handleViewInvoice
  \/ Invoices_handleEditInvoice
  \/ InvoiceViewer_onClose
  \/ InvoiceViewer_onEdit
  \/ InvoiceViewer_onStatusChange
  \/ Invoices_statusUpdated
  \/ Invoices_onDelete
  \/ InvoiceViewer_onDelete
  \/ Invoices_invoiceDeleted
  \/ InvoiceEditor_onTaxRate
  \/ InvoiceEditor_onClose
  \/ InvoiceEditor_handleSave
  \/ Invoices_invoiceUpdated
  \/ Invoices_itemsDeleted
  \/ Invoices_itemsInserted

SpecPage == InitPage /\ [][NextPage]_vars

\* --------------------------------------- the backend and its policies
\* The requests any signed-in user can send with the client library, as the
\* tables' constraints and row-level policies answer them.  A request the
\* backend rejects, and an update or delete that matches no row the user
\* may touch, changes nothing.  A row holds the columns the constraints and
\* the policies read.

\* Rows of a table in a backend run.
MaxRows == 2

\* clients.id of the rows of a backend run.
ClientIdPool == { "c1", "c2" }

ClientNames == { "n", "m" }

\* FOR SELECT/UPDATE USING (auth.uid() = id); FOR INSERT WITH CHECK the
\* same; an UPDATE policy without WITH CHECK applies USING to the new row.
\* There is no DELETE policy on profiles.
Profiles_policy(uid, row) == uid = row.id

\* USING / WITH CHECK (auth.uid() = user_id) of clients.
Clients_policy(uid, row) == uid = row.user_id

\* USING / WITH CHECK (auth.uid() = user_id) of invoices.
Invoices_policy(uid, row) == uid = row.user_id

\* USING / WITH CHECK (EXISTS (SELECT 1 FROM invoices WHERE invoices.id =
\* invoice_items.invoice_id AND invoices.user_id = auth.uid())).
InvoiceItems_policy(uid, row, invoices) ==
  \E i \in invoices : i.id = row.invoice_id /\ i.user_id = uid

\* Variant: a delete of a client that leaves its invoices.
DeleteClient_keepsInvoices(id) ==
  [ clients  |-> { r \in db_clients : r.id # id },
    invoices |-> db_invoices,
    items    |-> db_invoice_items ]

\* DELETE FROM clients WHERE id = ...; invoices.client_id REFERENCES
\* clients(id) ON DELETE CASCADE, and invoice_items.invoice_id REFERENCES
\* invoices(id) ON DELETE CASCADE.  The cascade is not subject to the
\* policies.
DeleteClient(id) ==
  LET gone == { r.id : r \in { i \in db_invoices : i.client_id = id } }
  IN  [ clients  |-> { r \in db_clients : r.id # id },
        invoices |-> { r \in db_invoices : r.client_id # id },
        items    |-> SelectSeq(db_invoice_items,
                               LAMBDA r : r.invoice_id \notin gone) ]

InitBackend ==
  /\ now = 0
  /\ db_invoices = {} /\ db_invoice_items = <<>>
  /\ db_clients = {} /\ db_profiles = {}
  /\ request = None /\ reply = None /\ saves = 0
  /\ NewInvoice = None /\ Invoices = None /\ InvoiceEditor = None
  /\ Settings = None /\ Clients = None /\ AuthForm = None
  /\ browser = Browser_idle
  /\ rendering = None

\* select('*') from a table: the rows the SELECT policy passes.
Backend_select(uid) ==
  /\ \E table \in { "profiles", "clients", "invoices", "invoice_items" } :
       reply' =
         [ uid   |-> uid,
           table |-> table,
           rows  |->
             CASE table = "profiles" ->
                    { r \in db_profiles : Profiles_policy(uid, r) }
               [] table = "clients" ->
                    { r \in db_clients : Clients_policy(uid, r) }
               [] table = "invoices" ->
                    { r \in db_invoices : Invoices_policy(uid, r) }
               [] table = "invoice_items" ->
                    { db_invoice_items[k] : k \in
                        { j \in 1..Len(db_invoice_items) :
                            InvoiceItems_policy(uid, db_invoice_items[j],
                                                db_invoices) } } ]
  /\ UNCHANGED << now, db_invoices, db_invoice_items, request, saves, NewInvoice, Invoices, InvoiceEditor >>
  /\ UNCHANGED << db_clients, db_profiles, Settings, Clients, AuthForm, browser, rendering >>

\* A write request: the rows of the last select are no longer held, and
\* nothing but the tables changes.
Backend_rest ==
  /\ reply' = None
  /\ UNCHANGED << now, request, saves, NewInvoice, Invoices, InvoiceEditor,
                  Settings, Clients, AuthForm, browser, rendering >>

\* insert into profiles: the primary key, UNIQUE (email), WITH CHECK.
Backend_insertProfile(uid) ==
  /\ \E id \in Users :
       LET row == [ id |-> id, email |-> id, full_name |-> "" ] IN
       /\ \A r \in db_profiles : r.id # row.id /\ r.email # row.email
       /\ Profiles_policy(uid, row)
       /\ db_profiles' = db_profiles \cup { row }
  /\ UNCHANGED << db_clients, db_invoices, db_invoice_items >>
  /\ Backend_rest

\* update profiles set id, full_name where id = ...
Backend_updateProfile(uid) ==
  /\ \E old \in db_profiles, id \in Users, full_name \in { "", "u" } :
       LET row == [old EXCEPT !.id = id, !.full_name = full_name] IN
       /\ Profiles_policy(uid, old)
       /\ Profiles_policy(uid, row)
       /\ \A r \in db_profiles \ { old } : r.id # row.id
       /\ db_profiles' = (db_profiles \ { old }) \cup { row }
  /\ UNCHANGED << db_clients, db_invoices, db_invoice_items >>
  /\ Backend_rest

\* insert into clients: WITH CHECK.
Backend_insertClient(uid) ==
  /\ Cardinality(db_clients) < MaxRows
  /\ \E id \in ClientIdPool, user_id \in Users :
       LET row == ClientRow(id, user_id) IN
       /\ \A r \in db_clients : r.id # id
       /\ Clients_policy(uid, row)
       /\ db_clients' = db_clients \cup { row }
  /\ UNCHANGED << db_profiles, db_invoices, db_invoice_items >>
  /\ Backend_rest

\* update clients set user_id, name where id = ...
Backend_updateClient(uid) ==
  /\ \E old \in db_clients, user_id \in Users, name \in ClientNames :
       LET row == [old EXCEPT !.user_id = user_id, !.name = name] IN
       /\ Clients_policy(uid, old)
       /\ Clients_policy(uid, row)
       /\ db_clients' = (db_clients \ { old }) \cup { row }
  /\ UNCHANGED << db_profiles, db_invoices, db_invoice_items >>
  /\ Backend_rest

\* delete from clients where id = ...
Backend_deleteClient(uid) ==
  /\ \E old \in db_clients :
       /\ Clients_policy(uid, old)
       /\ db_clients' = DeleteClient(old.id).clients
       /\ db_invoices' = DeleteClient(old.id).invoices
       /\ db_invoice_items' = DeleteClient(old.id).items
  /\ UNCHANGED db_profiles
  /\ Backend_rest

\* insert into invoices: the foreign key to clients, the CHECK on status,
\* WITH CHECK.
Backend_insertInvoice(uid) ==
  /\ Cardinality(db_invoices) < MaxRows
  /\ \E id \in 1..MaxRows, user_id \in Users, client_id \in ClientIdPool :
       LET row == [ id |-> id, user_id |-> user_id, client_id |-> client_id,
                    status |-> "draft" ] IN
       /\ \A r \in db_invoices : r.id # id
       /\ \E c \in db_clients : c.id = client_id
       /\ row.status \in StatusCheck
       /\ Invoices_policy(uid, row)
       /\ db_invoices' = db_invoices \cup { row }
  /\ UNCHANGED << db_profiles, db_clients, db_invoice_items >>
  /\ Backend_rest

\* update invoices set user_id, client_id where id = ...
Backend_updateInvoice(uid) ==
  /\ \E old \in db_invoices, user_id \in Users, client_id \in ClientIdPool :
       LET row == [old EXCEPT !.user_id = user_id, !.client_id = client_id] IN
       /\ Invoices_policy(uid, old)
       /\ Invoices_policy(uid, row)
       /\ \E c \in db_clients : c.id = client_id
       /\ db_invoices' = (db_invoices \ { old }) \cup { row }
  /\ UNCHANGED << db_profiles, db_clients, db_invoice_items >>
  /\ Backend_rest

\* delete from invoices where id = ...
Backend_deleteInvoice(uid) ==
  /\ \E old \in db_invoices :
       /\ Invoices_policy(uid, old)
       /\ db_invoices' = DeleteInvoice(old.id).invoices
       /\ db_invoice_items' = DeleteInvoice(old.id).items
  /\ UNCHANGED << db_profiles, db_clients >>
  /\ Backend_rest

\* insert into invoice_items: the foreign key to invoices, WITH CHECK.
Backend_insertItem(uid) ==
  /\ Len(db_invoice_items) < MaxRows
  /\ \E invoice_id \in 1..MaxRows :
       LET row == [ invoice_id |-> invoice_id ] IN
       /\ \E i \in db_invoices : i.id = invoice_id
       /\ InvoiceItems_policy(uid, row, db_invoices)
       /\ db_invoice_items' = Append(db_invoice_items, row)
  /\ UNCHANGED << db_profiles, db_clients, db_invoices >>
  /\ Backend_rest

\* update invoice_items set invoice_id where id = ...
Backend_updateItem(uid) ==
  /\ \E k \in 1..Len(db_invoice_items), invoice_id \in 1..MaxRows :
       LET row == [db_invoice_items[k] EXCEPT !.invoice_id = invoice_id] IN
       /\ InvoiceItems_policy(uid, db_invoice_items[k], db_invoices)
       /\ InvoiceItems_policy(uid, row, db_invoices)
       /\ db_invoice_items' = [db_invoice_items EXCEPT ![k] = row]
  /\ UNCHANGED << db_profiles, db_clients, db_invoices >>
  /\ Backend_rest

\* delete from invoice_items where id = ...
Backend_deleteItem(uid) ==
  /\ \E k \in 1..Len(db_invoice_items) :
       /\ InvoiceItems_policy(uid, db_invoice_items[k], db_invoices)
       /\ db_invoice_items' =
            [j \in 1..(Len(db_invoice_items) - 1) |->
               IF j < k THEN db_invoice_items[j] ELSE db_invoice_items[j + 1]]
  /\ UNCHANGED << db_profiles, db_clients, db_invoices >>
  /\ Backend_rest

\* A write request of the user uid.
Backend_write(uid) ==
  \/ Backend_insertProfile(uid)
  \/ Backend_updateProfile(uid)
  \/ Backend_insertClient(uid)
  \/ Backend_updateClient(uid)
  \/ Backend_deleteClient(uid)
  \/ Backend_insertInvoice(uid)
  \/ Backend_updateInvoice(uid)
  \/ Backend_deleteInvoice(uid)
  \/ Backend_insertItem(uid)
  \/ Backend_updateItem(uid)
  \/ Backend_deleteItem(uid)

NextBackend ==
  \E uid \in Users :
     \/ Backend_select(uid)
     \/ Backend_write(uid)

SpecBackend == InitBackend /\ [][NextBackend]_vars

\* ------------------------------------------------------- Settings page
\* The browser sessions of the signed-in user.
Sessions == { 1, 2 }

\* The full names the user types into the profile form.
TypedFullNames == { "", "u" }

\* newProfile of loadProfile: user_metadata.full_name is not set.
NewProfile ==
  [ id |-> User, email |-> User, full_name |-> "", company_name |-> Null,
    company_address |-> Null, phone |-> Null ]

\* Variant: a plain insert, which the primary key rejects with 23505.
Upsert_plainInsert(row) ==
  IF \E r \in db_profiles : r.id = row.id \/ r.email = row.email
  THEN [ profiles |-> db_profiles, error |-> "23505" ]
  ELSE [ profiles |-> db_profiles \cup { row }, error |-> "" ]

\* upsert(row, { onConflict: 'id' }): INSERT ... ON CONFLICT (id) DO UPDATE
\* replaces the row with that id or inserts the row, in one statement;
\* UNIQUE (email) rejects it when another row holds the email.
Upsert(row) ==
  IF \E r \in db_profiles : r.id # row.id /\ r.email = row.email
  THEN [ profiles |-> db_profiles, error |-> "23505" ]
  ELSE [ profiles |-> { r \in db_profiles : r.id # row.id } \cup { row },
         error    |-> "" ]

\* useState initial values of Settings; its effect calls loadProfile, whose
\* select is sent.  `logged` is the code of the error console.error got.
Settings_mount ==
  [ pc |-> "select", profile |-> None, full_name |-> "", loading |-> TRUE,
    saving |-> FALSE, sent |-> "", logged |-> "" ]

InitSettings ==
  /\ now = 0
  /\ db_invoices = {} /\ db_invoice_items = <<>>
  /\ db_clients = {} /\ db_profiles = {}
  /\ request = None /\ reply = None /\ saves = 0
  /\ NewInvoice = None /\ Invoices = None /\ InvoiceEditor = None
  /\ Settings = [s \in Sessions |-> Settings_mount]
  /\ Clients = None /\ AuthForm = None
  /\ browser = Browser_idle
  /\ rendering = None

\* What the Settings page leaves alone besides profiles.
Settings_rest ==
  UNCHANGED << now, db_invoices, db_invoice_items, db_clients, request,
               reply, saves, NewInvoice, Invoices, InvoiceEditor, Clients,
               AuthForm, browser, rendering >>

\* The select of loadProfile returns: with a row, the profile and the form
\* are set; with PGRST116 (no row) the upsert of newProfile is sent; with
\* another error, the error is logged.  Without an upsert, finally
\* setLoading(false), and the setSaving(false) of a handleSave that awaited.
Settings_selected(s) ==
  /\ Settings[s].pc = "select"
  /\ \/ \E data \in { r \in db_profiles : r.id = User } :
          Settings' = [Settings EXCEPT ![s] =
             [@ EXCEPT !.pc = "done", !.profile = data,
                       !.full_name = data.full_name, !.loading = FALSE,
                       !.saving = FALSE]]
     \/ /\ \A r \in db_profiles : r.id # User
        /\ Settings' = [Settings EXCEPT ![s] = [@ EXCEPT !.pc = "upsert"]]
     \/ Settings' = [Settings EXCEPT ![s] =
          [@ EXCEPT !.pc = "done", !.logged = "network", !.loading = FALSE,
                    !.saving = FALSE]]
  /\ UNCHANGED db_profiles
  /\ Settings_rest

\* The upsert of loadProfile returns: the profile and the form are set from
\* the upserted row, or the error is logged; setLoading(false).
Settings_upserted(s) ==
  /\ Settings[s].pc = "upsert"
  /\ \/ LET result == Upsert(NewProfile) IN
        /\ db_profiles' = result.profiles
        /\ Settings' = [Settings EXCEPT ![s] =
             IF result.error = ""
             THEN [@ EXCEPT !.pc = "done", !.profile = NewProfile,
                            !.full_name = NewProfile.full_name,
                            !.loading = FALSE, !.saving = FALSE]
             ELSE [@ EXCEPT !.pc = "done", !.logged = result.error,
                            !.loading = FALSE, !.saving = FALSE]]
     \/ /\ Settings' = [Settings EXCEPT ![s] =
             [@ EXCEPT !.pc = "done", !.logged = "network",
                       !.loading = FALSE, !.saving = FALSE]]
        /\ UNCHANGED db_profiles
  /\ Settings_rest

\* The Full Name field of the form.
Settings_onFullName(s) ==
  /\ Settings[s].pc = "done"
  /\ \E typed \in TypedFullNames :
       Settings' = [Settings EXCEPT ![s] = [@ EXCEPT !.full_name = typed]]
  /\ UNCHANGED db_profiles
  /\ Settings_rest

\* handleSave up to its await: setSaving(true) and the update is sent.
Settings_handleSave(s) ==
  /\ Settings[s].pc = "done"
  /\ Settings' = [Settings EXCEPT ![s] =
       [@ EXCEPT !.pc = "update", !.saving = TRUE,
                 !.sent = Settings[s].full_name]]
  /\ UNCHANGED db_profiles
  /\ Settings_rest

\* The update returns: loadProfile is called and awaited, or the error is
\* logged and setSaving(false).
Settings_saved(s) ==
  /\ Settings[s].pc = "update"
  /\ \/ /\ db_profiles' =
             { IF r.id = User THEN [r EXCEPT !.full_name = Settings[s].sent]
                              ELSE r : r \in db_profiles }
        /\ Settings' = [Settings EXCEPT ![s] = [@ EXCEPT !.pc = "select"]]
     \/ /\ Settings' = [Settings EXCEPT ![s] =
             [@ EXCEPT !.pc = "done", !.logged = "network", !.saving = FALSE]]
        /\ UNCHANGED db_profiles
  /\ Settings_rest

\* The user leaves the page and comes back to it.
Settings_remount(s) ==
  /\ Settings[s].pc = "done"
  /\ Settings' = [Settings EXCEPT ![s] = Settings_mount]
  /\ UNCHANGED db_profiles
  /\ Settings_rest

NextSettings ==
  \E s \in Sessions :
     \/ Settings_selected(s)
     \/ Settings_upserted(s)
     \/ Settings_onFullName(s)
     \/ Settings_handleSave(s)
     \/ Settings_saved(s)
     \/ Settings_remount(s)

SpecSettings == InitSettings /\ [][NextSettings]_vars

\* ------------------------------------------------------------ AuthForm
\* error.message of a failed sign-in or sign-up.
AuthMessages == { "Invalid login credentials" }

\* useState initial values of AuthForm.
AuthForm_mount == [ isSignUp |-> FALSE, loading |-> FALSE, error |-> "" ]

InitAuth ==
  /\ now = 0
  /\ db_invoices = {} /\ db_invoice_items = <<>>
  /\ db_clients = {} /\ db_profiles = {}
  /\ request = None /\ reply = None /\ saves = 0
  /\ NewInvoice = None /\ Invoices = None /\ InvoiceEditor = None
  /\ Settings = None /\ Clients = None
  /\ AuthForm = AuthForm_mount
  /\ browser = Browser_idle
  /\ rendering = None

\* The link under the button: setIsSignUp(!isSignUp).
AuthForm_onToggle ==
  /\ AuthForm # None /\ request = None
  /\ AuthForm' = [AuthForm EXCEPT !.isSignUp = ~AuthForm.isSignUp]
  /\ UNCHANGED << now, db_invoices, db_invoice_items, request, saves, NewInvoice, Invoices, InvoiceEditor >>
  /\ UNCHANGED << db_clients, db_profiles, reply, Settings, Clients, browser, rendering >>

\* handleSubmit up to its await: setLoading(true), setError(''), and signUp
\* or signIn is called.
AuthForm_handleSubmit ==
  /\ AuthForm # None /\ request = None
  /\ AuthForm' = [AuthForm EXCEPT !.loading = TRUE, !.error = ""]
  /\ request' = [ op |-> IF AuthForm.isSignUp THEN "AuthForm.signUp"
                                              ELSE "AuthForm.signIn" ]
  /\ UNCHANGED << now, db_invoices, db_invoice_items, saves, NewInvoice, Invoices, InvoiceEditor >>
  /\ UNCHANGED << db_clients, db_profiles, reply, Settings, Clients, browser, rendering >>

\* signUp or signIn returns: with an error, setError(error.message); then
\* setLoading(false).
AuthForm_returned ==
  /\ AuthForm # None
  /\ request # None /\ request.op \in { "AuthForm.signUp", "AuthForm.signIn" }
  /\ request' = None
  /\ \/ AuthForm' = [AuthForm EXCEPT !.loading = FALSE]
     \/ \E message \in AuthMessages :
          AuthForm' = [AuthForm EXCEPT !.loading = FALSE, !.error = message]
  /\ UNCHANGED << now, db_invoices, db_invoice_items, saves, NewInvoice, Invoices, InvoiceEditor >>
  /\ UNCHANGED << db_clients, db_profiles, reply, Settings, Clients, browser, rendering >>

NextAuth ==
  \/ AuthForm_onToggle
  \/ AuthForm_handleSubmit
  \/ AuthForm_returned

SpecAuth == InitAuth /\ [][NextAuth]_vars

\* ------------------------------------------------ the rendered invoice
\* A document is a paper size, the style metrics made for it, and the text
\* values of its elements in document order.  Dates are day numbers; a
\* time zone is its offset from UTC in hours.

\* A JavaScript value in a condition: null and '' are falsy.
Truthy(v) == v # Null /\ v # ""

\* The text value of a string.
Text(string) == [ text |-> string ]

\* {v && <Text>{v}</Text>}
Optional(v) == IF Truthy(v) THEN << Text(v) >> ELSE <<>>

\* a || b
OrElse(a, b) == IF Truthy(a) THEN a ELSE b

\* status.toUpperCase()
ToUpperCase(status) ==
  CASE status = "draft"   -> "DRAFT"
    [] status = "sent"    -> "SENT"
    [] status = "paid"    -> "PAID"
    [] status = "overdue" -> "OVERDUE"

\* status.charAt(0).toUpperCase() + status.slice(1)
Capitalised(status) ==
  CASE status = "draft"   -> "Draft"
    [] status = "sent"    -> "Sent"
    [] status = "paid"    -> "Paid"
    [] status = "overdue" -> "Overdue"

\* `$${x.toFixed(2)}` of a rate, which is in hundredths.
Dollars(rate) == [ dollar |-> TRUE, cents |-> rate ]

\* `$${x.toFixed(2)}` of money, which is in millionths: rounded to cents.
DollarsOfMoney(x) ==
  [ dollar |-> TRUE,
    cents  |-> IF x >= 0 THEN (x + 5000) \div 10000
               ELSE 0 - ((5000 - x) \div 10000) ]

\* new Date('yyyy-mm-dd') is the midnight of that day in UTC, in hours.
NewDate(dateString) == dateString * 24

\* The calendar day of an instant in the time zone of the browser.
LocalDay(hours, tz) == (hours + tz) \div 24

\* formatDate of the PDF: toLocaleDateString('en-US', { year, month, day })
\* gives the local day, as 'Jan 5, 2024'.
FormatDate(dateString, tz) ==
  [ day |-> LocalDay(NewDate(dateString), tz), pattern |-> "MMM d, yyyy" ]

\* format(new Date(...), 'MMM dd, yyyy') of date-fns: the local day.
DateFnsFormat(dateString, tz) ==
  [ day |-> LocalDay(NewDate(dateString), tz), pattern |-> "MMM dd, yyyy" ]

\* items.map(item => the four cells of its row), in the order of items.
RECURSIVE ItemCells(_)
ItemCells(items) ==
  IF items = <<>> THEN <<>>
  ELSE << Text(Head(items).description), [ quantity |-> Head(items).quantity ],
          Dollars(Head(items).rate), DollarsOfMoney(Head(items).amount) >>
       \o ItemCells(Tail(items))

\* The totals block, the same in the three renderings.
TotalsTexts(invoice) ==
  << Text("Subtotal:"), DollarsOfMoney(invoice.subtotal),
     [ tax |-> invoice.tax_rate ], DollarsOfMoney(invoice.tax_amount),
     Text("Total:"), DollarsOfMoney(invoice.total) >>

\* createStyles(format) of pdfGenerator: of its metrics, those of the page
\* and the header; every other one is chosen by isA5 in the same way.
createStyles(format) ==
  LET isA5 == format = "A5"
  IN  [ padding      |-> IF isA5 THEN 20 ELSE 40,
        fontSize     |-> IF isA5 THEN 9 ELSE 12,
        marginBottom |-> IF isA5 THEN 18 ELSE 28 ]

\* Variant: an InvoicePDF whose A5 page leaves the notes out.
InvoicePDF_notesOnA4(invoice, client, profile, items, format, tz) ==
  [ size   |-> format,
    styles |-> createStyles(format),
    texts  |->
      << Text(OrElse(profile.company_name, profile.full_name)) >>
      \o Optional(profile.company_address) \o Optional(profile.phone)
      \o << Text(profile.email), Text("INVOICE"), [ number |-> invoice.invoice_number ],
            Text(ToUpperCase(invoice.status)), Text("Bill To"), Text(client.name) >>
      \o Optional(client.company) \o Optional(client.address)
      \o Optional(client.phone)
      \o << Text(client.email),
            Text("Issue Date:"), FormatDate(invoice.issue_date, tz),
            Text("Due Date:"), FormatDate(invoice.due_date, tz),
            Text("Description"), Text("Qty"), Text("Rate"), Text("Amount") >>
      \o ItemCells(items)
      \o TotalsTexts(invoice)
      \o (IF Truthy(invoice.notes) /\ format = "A4"
          THEN << Text("Notes"), Text(invoice.notes) >> ELSE <<>>) ]

\* InvoicePDF of pdfGenerator.
InvoicePDF(invoice, client, profile, items, format, tz) ==
  [ size   |-> format,
    styles |-> createStyles(format),
    texts  |->
      << Text(OrElse(profile.company_name, profile.full_name)) >>
      \o Optional(profile.company_address) \o Optional(profile.phone)
      \o << Text(profile.email), Text("INVOICE"), [ number |-> invoice.invoice_number ],
            Text(ToUpperCase(invoice.status)), Text("Bill To"), Text(client.name) >>
      \o Optional(client.company) \o Optional(client.address)
      \o Optional(client.phone)
      \o << Text(client.email),
            Text("Issue Date:"), FormatDate(invoice.issue_date, tz),
            Text("Due Date:"), FormatDate(invoice.due_date, tz),
            Text("Description"), Text("Qty"), Text("Rate"), Text("Amount") >>
      \o ItemCells(items)
      \o TotalsTexts(invoice)
      \o (IF Truthy(invoice.notes)
          THEN << Text("Notes"), Text(invoice.notes) >> ELSE <<>>) ]

\* createStyles(format) of the copy in Settings.tsx.
Settings_createStyles(format) ==
  LET isA5 == format = "A5"
  IN  [ padding      |-> IF isA5 THEN 20 ELSE 30,
        fontSize     |-> IF isA5 THEN 8 ELSE 10,
        marginBottom |-> IF isA5 THEN 15 ELSE 20 ]

\* InvoicePDF of the copy in Settings.tsx.
Settings_InvoicePDF(invoice, client, profile, items, format, tz) ==
  [ size   |-> format,
    styles |-> Settings_createStyles(format),
    texts  |->
      << Text("INVOICE"), [ number |-> invoice.invoice_number ],
         Text(OrElse(profile.company_name, profile.full_name)) >>
      \o Optional(profile.company_address) \o Optional(profile.phone)
      \o << Text(profile.email), Text("BILL TO:"), Text(client.name) >>
      \o Optional(client.company) \o Optional(client.address)
      \o Optional(client.phone)
      \o << Text(client.email),
            Text("Issue Date:"), FormatDate(invoice.issue_date, tz),
            Text("Due Date:"), FormatDate(invoice.due_date, tz),
            Text("Status:"), Text(ToUpperCase(invoice.status)),
            Text(invoice.title),
            Text("Description"), Text("Qty"), Text("Rate"), Text("Amount") >>
      \o ItemCells(items)
      \o TotalsTexts(invoice)
      \o (IF Truthy(invoice.notes)
          THEN << Text("NOTES:"), Text(invoice.notes) >> ELSE <<>>) ]

\* The #invoice-content element of InvoiceViewer.
InvoiceViewer_content(invoice, client, profile, items, tz) ==
  << Text("INVOICE"), [ number |-> invoice.invoice_number ],
     Text(OrElse(profile.company_name, profile.full_name)) >>
  \o Optional(profile.company_address) \o Optional(profile.phone)
  \o << Text(profile.email), Text("BILL TO:"), Text(client.name) >>
  \o Optional(client.company) \o Optional(client.address)
  \o Optional(client.phone)
  \o << Text(client.email),
        Text("Issue Date:"), DateFnsFormat(invoice.issue_date, tz),
        Text("Due Date:"), DateFnsFormat(invoice.due_date, tz),
        Text("Status:"), Text(Capitalised(invoice.status)),
        Text(invoice.title),
        Text("Description"), Text("Qty"), Text("Rate"), Text("Amount") >>
  \o ItemCells(items)
  \o TotalsTexts(invoice)
  \o (IF Truthy(invoice.notes)
      THEN << Text("NOTES:"), Text(invoice.notes) >> ELSE <<>>)

\* The page printInvoice(format) writes to the print window: the @page
\* margin in mm, the body font size in px, and the content's innerHTML.
printInvoice(content, format) ==
  [ size   |-> format,
    styles |-> [ margin   |-> IF format = "A5" THEN 15 ELSE 20,
                 fontSize |-> IF format = "A5" THEN 10 ELSE 12 ],
    texts  |-> content ]

\* --- the inputs of a rendering
\* yyyy-mm-dd dates, as the number of the day.
Dates == { 19, 20 }

\* The browser's hours from UTC: New York, London, Berlin in summer.
TimeZones == { 0 - 5, 0, 2 }

\* Invoice rows as a save writes them for an item list, with a number, the
\* dates and the notes; '' is not stored (notes || null) but is a string.
RenderedInvoices(items) ==
  LET t == NewInvoice_calculateTotals(items, 10 * Hundredths)
  IN  { [ invoice_number |-> "INV-1", title |-> "T", status |-> status,
          issue_date |-> issue, due_date |-> 20,
          subtotal |-> t.subtotal, tax_rate |-> 10 * Hundredths,
          tax_amount |-> t.taxAmount, total |-> t.total, notes |-> notes ] :
          status \in StatusCheck, issue \in Dates,
          notes \in { Null, "", "thanks" } }

RenderedClients ==
  { [ name |-> "n", email |-> "e", company |-> company, address |-> Null,
      phone |-> Null ] : company \in { Null, "C" } }

RenderedProfiles ==
  { DefaultProfile,
    [DefaultProfile EXCEPT !.company_name = "Co", !.phone = "1"] }

\* Nothing rendered yet.
NoDocuments ==
  [ pdf         |-> [f \in Formats |-> None],
    settingsPdf |-> [f \in Formats |-> None],
    content     |-> None,
    print       |-> [f \in Formats |-> None] ]

InitRender ==
  /\ now = 0
  /\ db_invoices = {} /\ db_invoice_items = <<>>
  /\ db_clients = {} /\ db_profiles = {}
  /\ request = None /\ reply = None /\ saves = 0
  /\ NewInvoice = None /\ Invoices = None /\ InvoiceEditor = None
  /\ Settings = None /\ Clients = None /\ AuthForm = None
  /\ browser = Browser_idle
  /\ \E items \in { <<>>, OneItem, TwoItems } :
     \E invoice \in RenderedInvoices(items), client \in RenderedClients,
        profile \in RenderedProfiles, tz \in TimeZones :
       rendering = [ invoice |-> invoice, client |-> client,
                     profile |-> profile, items |-> items, tz |-> tz,
                     documents |-> NoDocuments ]

\* generateInvoicePDF(invoice, client, profile, items, format)
InvoicePDF_render ==
  /\ rendering # None
  /\ \E format \in Formats :
       /\ rendering.documents.pdf[format] = None
       /\ rendering' = [rendering EXCEPT !.documents.pdf[format] =
            InvoicePDF(rendering.invoice, rendering.client, rendering.profile,
                       rendering.items, format, rendering.tz)]
  /\ UNCHANGED << now, db_invoices, db_invoice_items, request, saves, NewInvoice, Invoices, InvoiceEditor >>
  /\ UNCHANGED << db_clients, db_profiles, reply, Settings, Clients, AuthForm, browser >>

\* generateInvoicePDF of the copy in Settings.tsx.
Settings_InvoicePDF_render ==
  /\ rendering # None
  /\ \E format \in Formats :
       /\ rendering.documents.settingsPdf[format] = None
       /\ rendering' = [rendering EXCEPT !.documents.settingsPdf[format] =
            Settings_InvoicePDF(rendering.invoice, rendering.client,
                                rendering.profile, rendering.items, format,
                                rendering.tz)]
  /\ UNCHANGED << now, db_invoices, db_invoice_items, request, saves, NewInvoice, Invoices, InvoiceEditor >>
  /\ UNCHANGED << db_clients, db_profiles, reply, Settings, Clients, AuthForm, browser >>

\* <InvoiceViewer invoice client profile items />
InvoiceViewer_render ==
  /\ rendering # None
  /\ rendering.documents.content = None
  /\ rendering' = [rendering EXCEPT !.documents.content =
       InvoiceViewer_content(rendering.invoice, rendering.client,
                             rendering.profile, rendering.items, rendering.tz)]
  /\ UNCHANGED << now, db_invoices, db_invoice_items, request, saves, NewInvoice, Invoices, InvoiceEditor >>
  /\ UNCHANGED << db_clients, db_profiles, reply, Settings, Clients, AuthForm, browser >>

\* printInvoice(format) with a window and the viewer on screen.
printInvoice_render ==
  /\ rendering # None
  /\ rendering.documents.content # None
  /\ \E format \in Formats :
       /\ rendering.documents.print[format] = None
       /\ rendering' = [rendering EXCEPT !.documents.print[format] =
            printInvoice(rendering.documents.content, format)]
  /\ UNCHANGED << now, db_invoices, db_invoice_items, request, saves, NewInvoice, Invoices, InvoiceEditor >>
  /\ UNCHANGED << db_clients, db_profiles, reply, Settings, Clients, AuthForm, browser >>

NextRender ==
  \/ InvoicePDF_render
  \/ Settings_InvoicePDF_render
  \/ InvoiceViewer_render
  \/ printInvoice_render

SpecRender == InitRender /\ [][NextRender]_vars

\* -------------------------------------------------------- Clients page
\* The values the user types into the fields of a client form.
TypedClientValues ==
  [ name |-> { "", "n" }, email |-> { "", "e" }, company |-> { "", "x" },
    address |-> { "", "x" }, phone |-> { "", "x" } ]

ClientFields == { "name", "email", "company", "address", "phone" }

\* v || null
OrNull(v) == IF Truthy(v) THEN v ELSE Null

\* The object handleSubmit and handleCreateClient send, before user_id.
ClientValues(form) ==
  [ name    |-> form.name,
    email   |-> form.email,
    company |-> OrNull(form.company),
    address |-> OrNull(form.address),
    phone   |-> OrNull(form.phone) ]

\* The clients the forms create at most.
MaxClients == 1

\* gen_random_uuid() of a new clients row: an id no row holds (none once
\* MaxClients rows are stored).
FreshClientIds ==
  IF Cardinality(db_clients) < MaxClients
  THEN ClientIdPool \ { r.id : r \in db_clients }
  ELSE {}

\* useState initial values of Clients; its effect calls loadClients.
Clients_mount ==
  [ clients       |-> {},
    loading       |-> TRUE,
    showModal     |-> FALSE,
    editingClient |-> None,
    clientForm    |-> ClientForm_empty,
    loadClients   |-> TRUE ]

\* Either page is open, on a backend without clients.
InitClients ==
  /\ now = 0
  /\ db_invoices = {} /\ db_invoice_items = <<>>
  /\ db_clients = {} /\ db_profiles = {}
  /\ request = None /\ reply = None /\ saves = 0
  /\ Invoices = None /\ InvoiceEditor = None
  /\ Settings = None /\ AuthForm = None
  /\ browser = Browser_idle
  /\ rendering = None
  /\ \/ Clients = Clients_mount /\ NewInvoice = None
     \/ Clients = None /\ NewInvoice = NewInvoice_mount

\* What the client forms leave alone.
Clients_rest ==
  UNCHANGED << now, db_profiles, reply, saves, Invoices, InvoiceEditor,
               Settings, AuthForm, browser, rendering >>

Clients_idle == Clients # None /\ request = None

\* loadClients returns: the user's clients, or the error goes to
\* console.error; finally setLoading(false).
Clients_loadClients ==
  /\ Clients # None /\ Clients.loadClients
  /\ \/ Clients' = [Clients EXCEPT
                      !.clients = { r \in db_clients : r.user_id = User },
                      !.loading = FALSE, !.loadClients = FALSE]
     \/ Clients' = [Clients EXCEPT !.loading = FALSE, !.loadClients = FALSE]
  /\ UNCHANGED << db_clients, db_invoices, db_invoice_items, request, NewInvoice >>
  /\ Clients_rest

\* The "Add Client" button: setShowModal(true).
Clients_onAddClient ==
  /\ Clients_idle /\ ~Clients.loading /\ ~Clients.showModal
  /\ Clients' = [Clients EXCEPT !.showModal = TRUE]
  /\ UNCHANGED << db_clients, db_invoices, db_invoice_items, request, NewInvoice >>
  /\ Clients_rest

\* onChange of a field of the form.
Clients_onChange ==
  /\ Clients_idle /\ Clients.showModal
  /\ \E field \in ClientFields : \E value \in TypedClientValues[field] :
       Clients' = [Clients EXCEPT !.clientForm[field] = value]
  /\ UNCHANGED << db_clients, db_invoices, db_invoice_items, request, NewInvoice >>
  /\ Clients_rest

\* handleEdit of a listed client.
Clients_handleEdit ==
  /\ Clients_idle /\ ~Clients.loading /\ ~Clients.showModal
  /\ \E client \in Clients.clients :
       Clients' = [Clients EXCEPT
                     !.editingClient = client,
                     !.clientForm = [ name    |-> client.name,
                                      email   |-> client.email,
                                      company |-> OrElse(client.company, ""),
                                      address |-> OrElse(client.address, ""),
                                      phone   |-> OrElse(client.phone, "") ],
                     !.showModal = TRUE]
  /\ UNCHANGED << db_clients, db_invoices, db_invoice_items, request, NewInvoice >>
  /\ Clients_rest

\* Variant: a resetForm that keeps the client being edited.
Clients_resetForm_keepsEditing(state) ==
  [state EXCEPT !.clientForm = ClientForm_empty, !.showModal = FALSE]

\* resetForm of a page state.
Clients_resetForm(state) ==
  [state EXCEPT !.clientForm = ClientForm_empty, !.editingClient = None,
                !.showModal = FALSE]

\* onClose of the modal and its Cancel button: resetForm.
Clients_onClose ==
  /\ Clients_idle /\ Clients.showModal
  /\ Clients' = Clients_resetForm(Clients)
  /\ UNCHANGED << db_clients, db_invoices, db_invoice_items, request, NewInvoice >>
  /\ Clients_rest

\* Variant: handleSubmit without its check of name and email.
Clients_handleSubmit_unchecked ==
  /\ Clients_idle /\ Clients.showModal
  /\ IF Clients.editingClient # None
     THEN request' = [ op |-> "Clients.update",
                       id |-> Clients.editingClient.id,
                       values |-> ClientValues(Clients.clientForm) ]
     ELSE /\ FreshClientIds # {}
          /\ request' = [ op |-> "Clients.insert", user_id |-> User,
                          values |-> ClientValues(Clients.clientForm) ]
  /\ UNCHANGED << db_clients, db_invoices, db_invoice_items, Clients, NewInvoice >>
  /\ Clients_rest

\* handleSubmit up to its await: nothing is sent without a name or without
\* an email; an edited client is updated by its id, a new one is inserted.
Clients_handleSubmit ==
  /\ Clients_idle /\ Clients.showModal
  /\ IF ~Truthy(Clients.clientForm.name) \/ ~Truthy(Clients.clientForm.email)
     THEN UNCHANGED request
     ELSE IF Clients.editingClient # None
     THEN request' = [ op |-> "Clients.update",
                       id |-> Clients.editingClient.id,
                       values |-> ClientValues(Clients.clientForm) ]
     ELSE /\ FreshClientIds # {}
          /\ request' = [ op |-> "Clients.insert", user_id |-> User,
                          values |-> ClientValues(Clients.clientForm) ]
  /\ UNCHANGED << db_clients, db_invoices, db_invoice_items, Clients, NewInvoice >>
  /\ Clients_rest

\* A clients row of the values sent.
ClientOf(id, user_id, values) ==
  [ id |-> id, user_id |-> user_id, name |-> values.name,
    email |-> values.email, company |-> values.company,
    address |-> values.address, phone |-> values.phone ]

\* The update or the insert of handleSubmit returns: resetForm() and
\* loadClients(), or the error goes to console.error.
Clients_submitted ==
  /\ Clients # None /\ request # None
  /\ request.op \in { "Clients.update", "Clients.insert" }
  /\ request' = None
  /\ \/ /\ IF request.op = "Clients.update"
           THEN db_clients' =
                  { IF r.id = request.id /\ r.user_id = User
                    THEN ClientOf(r.id, r.user_id, request.values) ELSE r
                    : r \in db_clients }
           ELSE \E id \in FreshClientIds :
                  db_clients' = db_clients
                                \cup { ClientOf(id, request.user_id, request.values) }
        /\ Clients' = [Clients_resetForm(Clients) EXCEPT !.loadClients = TRUE]
     \/ UNCHANGED << db_clients, Clients >>
  /\ UNCHANGED << db_invoices, db_invoice_items, NewInvoice >>
  /\ Clients_rest

\* handleDelete of a listed client up to its await, with the user's answer
\* to confirm(): it returns when the user cancels, else sends the delete.
Clients_handleDeleteAnswered(confirm) ==
  /\ Clients_idle /\ ~Clients.loading /\ ~Clients.showModal
  /\ \E client \in Clients.clients :
       request' = IF confirm
                  THEN [ op |-> "Clients.delete", id |-> client.id ]
                  ELSE request
  /\ UNCHANGED << db_clients, db_invoices, db_invoice_items, Clients, NewInvoice >>
  /\ Clients_rest

Clients_handleDelete ==
  \E confirm \in BOOLEAN : Clients_handleDeleteAnswered(confirm)

\* The delete returns: loadClients(), or the error goes to console.error.
Clients_deleted ==
  /\ Clients # None /\ request # None
  /\ request.op = "Clients.delete"
  /\ request' = None
  /\ \/ /\ db_clients' = DeleteClient(request.id).clients
        /\ db_invoices' = DeleteClient(request.id).invoices
        /\ db_invoice_items' = DeleteClient(request.id).items
        /\ Clients' = [Clients EXCEPT !.loadClients = TRUE]
     \/ UNCHANGED << db_clients, db_invoices, db_invoice_items, Clients >>
  /\ UNCHANGED NewInvoice
  /\ Clients_rest

\* --- NewInvoice: the "New Client" modal
NewClient_idle == NewInvoice # None /\ request = None

\* The "New Client" button: setShowNewClientModal(true).
NewInvoice_onNewClient ==
  /\ NewClient_idle /\ ~NewInvoice.showNewClientModal
  /\ NewInvoice' = [NewInvoice EXCEPT !.showNewClientModal = TRUE]
  /\ UNCHANGED << db_clients, db_invoices, db_invoice_items, request, Clients >>
  /\ Clients_rest

\* onChange of a field of the modal.
NewInvoice_onNewClientChange ==
  /\ NewClient_idle /\ NewInvoice.showNewClientModal
  /\ \E field \in ClientFields : \E value \in TypedClientValues[field] :
       NewInvoice' = [NewInvoice EXCEPT !.newClient[field] = value]
  /\ UNCHANGED << db_clients, db_invoices, db_invoice_items, request, Clients >>
  /\ Clients_rest

\* onClose of the modal and its Cancel button: the typed values stay.
NewInvoice_onCloseNewClient ==
  /\ NewClient_idle /\ NewInvoice.showNewClientModal
  /\ NewInvoice' = [NewInvoice EXCEPT !.showNewClientModal = FALSE]
  /\ UNCHANGED << db_clients, db_invoices, db_invoice_items, request, Clients >>
  /\ Clients_rest

\* handleCreateClient up to its await: nothing is sent without a name or
\* without an email.
NewInvoice_handleCreateClient ==
  /\ NewClient_idle /\ NewInvoice.showNewClientModal
  /\ IF ~Truthy(NewInvoice.newClient.name) \/ ~Truthy(NewInvoice.newClient.email)
     THEN UNCHANGED request
     ELSE /\ FreshClientIds # {}
          /\ request' = [ op |-> "NewInvoice.insert_client", user_id |-> User,
                          values |-> ClientValues(NewInvoice.newClient) ]
  /\ UNCHANGED << db_clients, db_invoices, db_invoice_items, NewInvoice, Clients >>
  /\ Clients_rest

\* The insert of handleCreateClient returns: the new client is selected,
\* the modal is closed and emptied; or the error goes to console.error.
NewInvoice_clientCreated ==
  /\ NewInvoice # None /\ request # None
  /\ request.op = "NewInvoice.insert_client"
  /\ request' = None
  /\ \/ \E id \in FreshClientIds :
          /\ db_clients' = db_clients
                           \cup { ClientOf(id, request.user_id, request.values) }
          /\ NewInvoice' = [NewInvoice EXCEPT
                              !.selectedClient = id,
                              !.showNewClientModal = FALSE,
                              !.newClient = ClientForm_empty]
     \/ UNCHANGED << db_clients, NewInvoice >>
  /\ UNCHANGED << db_invoices, db_invoice_items, Clients >>
  /\ Clients_rest

NextClients ==
  \/ Clients_loadClients
  \/ Clients_onAddClient
  \/ Clients_onChange
  \/ Clients_handleEdit
  \/ Clients_onClose
  \/ Clients_handleSubmit
  \/ Clients_submitted
  \/ Clients_handleDelete
  \/ Clients_deleted
  \/ NewInvoice_onNewClient
  \/ NewInvoice_onNewClientChange
  \/ NewInvoice_onCloseNewClient
  \/ NewInvoice_handleCreateClient
  \/ NewInvoice_clientCreated

SpecClients == InitClients /\ [][NextClients]_vars

\* ------------------------------------------- calculateTotals on its own
\* The tax field's max="100".
MaxTaxRate == 100

\* An item as updateItem leaves it.
CalcItem(id, quantity, rate) ==
  [id |-> id, description |-> "", quantity |-> quantity, rate |-> rate,
   amount |-> Times(quantity, rate)]

\* (quantity, rate) of an item: 1 x 2.00, 0.5 x 2.00, -1 x 2.00, 0 x 0.
CalcValues ==
  { <<1 * Hundredths, 2 * Hundredths>>, <<Hundredths \div 2, 2 * Hundredths>>,
    <<0 - 1 * Hundredths, 2 * Hundredths>>, <<0, 0>> }

\* The lists of 0..MaxItems items with the ids `ids`.
CalcLists(ids) ==
  UNION { { [i \in 1..n |-> CalcItem(ids[i], vs[i][1], vs[i][2])] :
              vs \in [1..n -> CalcValues] } : n \in 0..MaxItems }

\* 2 x 50.00 and 1 x 100.00
ExampleItems(ids) ==
  << CalcItem(ids[1], 2 * Hundredths, 50 * Hundredths),
     CalcItem(ids[2], 1 * Hundredths, 100 * Hundredths) >>

\* 0.5 x 0.25: an amount of 12.5 cents.
HalfCentItems(ids) ==
  << CalcItem(ids[1], Hundredths \div 2, Hundredths \div 4) >>

\* Item lists with tax rates: every whole rate of the tax field with the
\* small lists, the rates 0 and 10 with the example, the rates 0 and 20
\* with the half-cent amount.
CalcInputs(ids) ==
  { [items |-> l, rate |-> p * Hundredths] :
      l \in CalcLists(ids), p \in 0..MaxTaxRate }
  \cup { [items |-> ExampleItems(ids), rate |-> p * Hundredths] : p \in {0, 10} }
  \cup { [items |-> HalfCentItems(ids), rate |-> p * Hundredths] : p \in {0, 20} }

NewInvoiceIds == [i \in 1..MaxItems |-> IF i = 1 THEN InitialId ELSE ClockId(i)]

BackendIds == [i \in 1..MaxItems |-> UuidId(i)]

\* A form whose state is set and whose render has not run yet.  The
\* new-invoice form never holds an empty list (removeItem keeps one item).
InitCalc ==
  /\ now = 0
  /\ InitOthers
  /\ db_invoices = {}
  /\ db_invoice_items = <<>>
  /\ request = None
  /\ saves = 0
  /\ Invoices = None
  /\ \/ /\ InvoiceEditor = None
        /\ \E input \in CalcInputs(NewInvoiceIds) :
              /\ input.items # <<>>
              /\ NewInvoice = [ selectedClient |-> "",
                                invoiceData |-> [title |-> "", taxRate |-> input.rate],
                                items |-> input.items, loading |-> FALSE,
                                summary |-> None ]
     \/ /\ NewInvoice = None
        /\ \E input \in CalcInputs(BackendIds) :
              InvoiceEditor = [ invoiceData |-> [title |-> "T", client_id |-> "c1",
                                                 tax_rate |-> input.rate],
                                items |-> input.items, loading |-> FALSE,
                                summary |-> None ]

\* const { subtotal, taxAmount, total } = calculateTotals() of the render.
NewInvoice_calculate ==
  /\ NewInvoice # None /\ NewInvoice.summary = None
  /\ NewInvoice' = NewInvoice_render(NewInvoice)
  /\ UNCHANGED << others, now, db_invoices, db_invoice_items, request, saves, Invoices, InvoiceEditor >>

InvoiceEditor_calculate ==
  /\ InvoiceEditor # None /\ InvoiceEditor.summary = None
  /\ InvoiceEditor' = InvoiceEditor_render(InvoiceEditor)
  /\ UNCHANGED << others, now, db_invoices, db_invoice_items, request, saves, NewInvoice, Invoices >>

NextCalc ==
  \/ NewInvoice_calculate
  \/ InvoiceEditor_calculate

SpecCalc == InitCalc /\ [][NextCalc]_vars

\* ---------------------------------------------- every request returns
\* The application shows the sign-in form, the Settings page or the
\* invoice pages.
InitApp == InitAuth \/ InitSettings \/ Init

\* The steps of the Settings page, when it is the page shown.
Settings_step(s) ==
  /\ Settings # None
  /\ \/ Settings_selected(s)
     \/ Settings_upserted(s)
     \/ Settings_onFullName(s)
     \/ Settings_handleSave(s)
     \/ Settings_saved(s)
     \/ Settings_remount(s)

NextApp ==
  \/ NextAuth
  \/ \E s \in Sessions : Settings_step(s)
  \/ Next

\* Every backend request that was sent eventually returns, with data or
\* with an error.
RequestsReturn ==
  /\ WF_vars(AuthForm_returned)
  /\ \A s \in Sessions :
        /\ WF_vars(Settings # None /\ Settings_saved(s))
        /\ WF_vars(Settings # None /\ Settings_selected(s))
        /\ WF_vars(Settings # None /\ Settings_upserted(s))
  /\ WF_vars(NewInvoice_invoiceInserted)
  /\ WF_vars(NewInvoice_itemsInserted)
  /\ WF_vars(Invoices_invoiceUpdated)
  /\ WF_vars(Invoices_itemsDeleted)
  /\ WF_vars(Invoices_itemsInserted)

SpecApp == InitApp /\ [][NextApp]_vars /\ RequestsReturn

\* =============================================================== claims
\* The sum of quantity * rate over `items`, as money.
RECURSIVE SumOfProducts(_)
SumOfProducts(items) ==
  IF items = <<>> THEN 0
  ELSE Head(items).quantity * Head(items).rate * PerCent
       + SumOfProducts(Tail(items))

RECURSIVE SumOfStoredAmounts(_)
SumOfStoredAmounts(rows) ==
  IF rows = <<>> THEN 0 ELSE Head(rows).amount + SumOfStoredAmounts(Tail(rows))

StoredItemsOf(invoice_id) ==
  SelectSeq(db_invoice_items, LAMBDA r : r.invoice_id = invoice_id)

Zeros == [subtotal |-> 0, taxAmount |-> 0, total |-> 0]

\* C1: once a save attempt has returned and none is in flight, every stored
\* invoice has subtotal = the sum of the amounts of its stored line items,
\* tax_amount = subtotal * tax_rate / 100 and total = subtotal + tax_amount,
\* whichever of the save's requests succeeded or failed.
C1_StoredTotalsMatchStoredItems ==
  (request = None /\ saves > 0) =>
    \A inv \in db_invoices :
      /\ inv.subtotal = SumOfStoredAmounts(StoredItemsOf(inv.id))
      /\ inv.tax_amount * Hundredths = (inv.subtotal \div PerCent) * inv.tax_rate
      /\ inv.total = inv.subtotal + inv.tax_amount

\* C2: every line item of the new-invoice form and of the invoice editor has
\* amount = quantity * rate, whatever addItem, removeItem and updateItem
\* calls led to it.
C2_AmountIsQuantityTimesRate ==
  /\ NewInvoice # None =>
       \A i \in 1..Len(NewInvoice.items) :
         NewInvoice.items[i].amount
           = NewInvoice.items[i].quantity * NewInvoice.items[i].rate * PerCent
  /\ InvoiceEditor # None =>
       \A i \in 1..Len(InvoiceEditor.items) :
         InvoiceEditor.items[i].amount
           = InvoiceEditor.items[i].quantity * InvoiceEditor.items[i].rate * PerCent

\* The editor holds a backend item and an added one whose quantity and rate
\* were both typed, and the new-invoice form was used before (a stored
\* state is one it wrote).
C2_Witness ==
  /\ InvoiceEditor # None /\ Len(InvoiceEditor.items) = 2
  /\ InvoiceEditor.items[1].id = UuidId(1)
  /\ InvoiceEditor.items[2].id.src = "clock"
  /\ InvoiceEditor.items[2].quantity = Hundredths \div 2
  /\ InvoiceEditor.items[2].amount = 1 * Hundredths * Hundredths * PerCent

\* C3: the subtotal calculateTotals returned for the items a form holds,
\* items received from the backend included, is the sum of quantity * rate
\* over them; and the items [(2, 50), (1, 100)] give the subtotal 200.
C3_SubtotalIsSumOfProducts ==
  /\ NewInvoice # None =>
       NewInvoice.summary.subtotal = SumOfProducts(NewInvoice.items)
  /\ InvoiceEditor # None =>
       InvoiceEditor.summary.subtotal = SumOfProducts(InvoiceEditor.items)
  /\ NewInvoice_calculateTotals(ExampleItems(NewInvoiceIds), 10 * Hundredths).subtotal
       = 200 * Hundredths * Hundredths * PerCent
  /\ InvoiceEditor_calculateTotals(ExampleItems(BackendIds), 10 * Hundredths).subtotal
       = 200 * Hundredths * Hundredths * PerCent

\* The editor shows the two items it received from the backend: 2.00 + 1.00.
C3_Witness ==
  /\ InvoiceEditor # None /\ Len(InvoiceEditor.items) = 2
  /\ InvoiceEditor.items = SelectItems(Invoices.editingInvoice.id)
  /\ InvoiceEditor.summary.subtotal = 3 * Hundredths * Hundredths * PerCent

\* C4: for every item list and every tax rate from 0 to 100, the tax amount
\* calculateTotals returns is subtotal * tax rate / 100 of the subtotal it
\* returns; the example's 200 at 10 per cent gives 20.
C4_TaxIsRateOfSubtotal ==
  /\ (NewInvoice # None /\ NewInvoice.summary # None) =>
       NewInvoice.summary.taxAmount * Hundredths
         = (NewInvoice.summary.subtotal \div PerCent) * NewInvoice.invoiceData.taxRate
  /\ (InvoiceEditor # None /\ InvoiceEditor.summary # None) =>
       InvoiceEditor.summary.taxAmount * Hundredths
         = (InvoiceEditor.summary.subtotal \div PerCent)
             * InvoiceEditor.invoiceData.tax_rate
  /\ NewInvoice_calculateTotals(ExampleItems(NewInvoiceIds), 10 * Hundredths).taxAmount
       = 20 * Hundredths * Hundredths * PerCent

\* A form at the tax rate 100 with a subtotal other than 0: the tax is the
\* subtotal.
C4_Witness ==
  /\ NewInvoice # None /\ NewInvoice.summary # None
  /\ NewInvoice.invoiceData.taxRate = MaxTaxRate * Hundredths
  /\ NewInvoice.summary.subtotal # 0
  /\ NewInvoice.summary.taxAmount = NewInvoice.summary.subtotal

\* C5: the total calculateTotals returned is its subtotal plus its tax
\* amount, and a save passes exactly the form's (subtotal, tax amount,
\* total) to the backend.
C5_TotalIsSumAndIsSaved ==
  /\ NewInvoice # None =>
       NewInvoice.summary.total
         = NewInvoice.summary.subtotal + NewInvoice.summary.taxAmount
  /\ InvoiceEditor # None =>
       InvoiceEditor.summary.total
         = InvoiceEditor.summary.subtotal + InvoiceEditor.summary.taxAmount
  /\ (request # None /\ request.op = "NewInvoice.insert_invoice") =>
       << request.row.subtotal, request.row.tax_amount, request.row.total >>
         = << NewInvoice.summary.subtotal, NewInvoice.summary.taxAmount,
              NewInvoice.summary.total >>
  /\ (request # None /\ request.op = "Invoices.update_invoice") =>
       << request.data.subtotal, request.data.tax_amount, request.data.total >>
         = << InvoiceEditor.summary.subtotal, InvoiceEditor.summary.taxAmount,
              InvoiceEditor.summary.total >>

\* The editor's save is in flight with a tax amount other than 0.
C5_Witness ==
  /\ request # None /\ request.op = "Invoices.update_invoice"
  /\ request.data.tax_amount # 0
  /\ request.data.total = request.data.subtotal + request.data.tax_amount

\* C6: for the empty item list and any tax rate, calculateTotals returns
\* subtotal = 0, tax amount = 0 and total = 0.
C6_EmptyListGivesZeros ==
  /\ (InvoiceEditor # None /\ InvoiceEditor.summary # None
        /\ InvoiceEditor.items = <<>>) => InvoiceEditor.summary = Zeros
  /\ \A p \in 0..MaxTaxRate :
       NewInvoice_calculateTotals(<<>>, p * Hundredths) = Zeros

\* The editor has rendered with no items at the tax rate 20.
C6_Witness ==
  /\ InvoiceEditor # None /\ InvoiceEditor.summary # None
  /\ InvoiceEditor.items = <<>>
  /\ InvoiceEditor.invoiceData.tax_rate = 20 * Hundredths

\* C7: whatever the user typed for quantity, rate and tax rate, the
\* subtotal, tax amount and total of each form, and those a save passes to
\* the backend, are all >= 0.
C7_TotalsAreNotNegative ==
  /\ NewInvoice # None =>
       /\ NewInvoice.summary.subtotal >= 0
       /\ NewInvoice.summary.taxAmount >= 0
       /\ NewInvoice.summary.total >= 0
  /\ InvoiceEditor # None =>
       /\ InvoiceEditor.summary.subtotal >= 0
       /\ InvoiceEditor.summary.taxAmount >= 0
       /\ InvoiceEditor.summary.total >= 0
  /\ \A inv \in db_invoices :
       inv.subtotal >= 0 /\ inv.tax_amount >= 0 /\ inv.total >= 0

\* C8: every line item a form holds and every line item stored in the
\* backend has quantity >= 0 and rate >= 0.
C8_QuantityAndRateAreNotNegative ==
  /\ NewInvoice # None =>
       \A i \in 1..Len(NewInvoice.items) :
         NewInvoice.items[i].quantity >= 0 /\ NewInvoice.items[i].rate >= 0
  /\ InvoiceEditor # None =>
       \A i \in 1..Len(InvoiceEditor.items) :
         InvoiceEditor.items[i].quantity >= 0 /\ InvoiceEditor.items[i].rate >= 0
  /\ \A k \in 1..Len(db_invoice_items) :
       db_invoice_items[k].quantity >= 0 /\ db_invoice_items[k].rate >= 0

\* What the user can type into a quantity or rate field that is not a number.
NonNumeric ==
  { typed \in TypedQuantities \cup TypedRates :
      ParseFloat(NumberInputValue(typed)).nan }

\* The user types `typed` into `field` of item i of the new-invoice form.
NewInvoice_types(i, field, typed) ==
  /\ NewInvoice_idle /\ i <= Len(NewInvoice.items)
  /\ NewInvoice' = NewInvoice_render(
       [NewInvoice EXCEPT !.items =
          NewInvoice_updateItem(NewInvoice.items, NewInvoice.items[i].id,
             field, OrZero(ParseFloat(NumberInputValue(typed))))])

\* The user types `typed` into `field` of item i of the invoice editor.
InvoiceEditor_types(i, field, typed) ==
  /\ InvoiceEditor_idle /\ i <= Len(InvoiceEditor.items)
  /\ InvoiceEditor' = InvoiceEditor_render(
       [InvoiceEditor EXCEPT !.items =
          InvoiceEditor_updateItem(InvoiceEditor.items, InvoiceEditor.items[i].id,
             field, OrZero(ParseFloat(NumberInputValue(typed))))])

\* C9: when the user types a non-numeric or empty value into the quantity
\* or rate of a line item, that field becomes 0, the item's amount becomes
\* 0, and every other line item of the form is unchanged.
C9_NonNumericTouchesOneItem ==
  [][ \A i \in 1..MaxItems, field \in {"quantity", "rate"}, typed \in NonNumeric :
        /\ NewInvoice_types(i, field, typed) =>
             /\ NewInvoice'.items[i][field] = 0
             /\ NewInvoice'.items[i].amount = 0
             /\ \A j \in 1..Len(NewInvoice.items) :
                  j # i => NewInvoice'.items[j] = NewInvoice.items[j]
        /\ InvoiceEditor_types(i, field, typed) =>
             /\ InvoiceEditor'.items[i][field] = 0
             /\ InvoiceEditor'.items[i].amount = 0
             /\ \A j \in 1..Len(InvoiceEditor.items) :
                  j # i => InvoiceEditor'.items[j] = InvoiceEditor.items[j]
    ]_vars

C11_StatusIsOneOfFour ==
  /\ \A r \in db_invoices : r.status \in { "draft", "sent", "paid", "overdue" }
  /\ (Invoices # None /\ Invoices.selectedInvoice # None)
        => Invoices.selectedInvoice.status \in { "draft", "sent", "paid", "overdue" }
  /\ (request # None /\ request.op = "NewInvoice.insert_invoice")
        => request.row.status \in { "draft", "sent" }

\* The viewer shows a stored invoice whose status a status change has set.
C11_Witness ==
  /\ Invoices_viewerShown
  /\ Invoices.selectedInvoice.status = "overdue"
  /\ \E r \in db_invoices :
        r.id = Invoices.selectedInvoice.id /\ r.status = "overdue"

\* C12: with the viewer open on an invoice, handleStatusChange sends the
\* update for each of the four statuses, whatever the status is; and when
\* the update succeeds, the stored row and the viewer's invoice have the
\* status that was asked for.
C12_AnyStatusChangeTakesEffect ==
  [][ /\ InvoiceViewer_idle =>
          \A t \in { "draft", "sent", "paid", "overdue" } :
             ENABLED Invoices_handleStatusChange(Invoices.selectedInvoice.id, t)
      /\ (/\ request # None /\ request.op = "Invoices.update_status"
          /\ Invoices_viewerShown
          /\ Invoices_statusChanged)
         => /\ \A r \in db_invoices' :
                  r.id = request.id => r.status = request.status
            /\ Invoices'.selectedInvoice # None
            /\ Invoices'.selectedInvoice.id = request.id
            /\ Invoices'.selectedInvoice.status = request.status ]_vars

\* A paid invoice has been set back to draft, in the table and the viewer.
C12_Witness ==
  /\ Invoices_viewerShown
  /\ Invoices.selectedInvoice.status = "draft"
  /\ \E r \in db_invoices :
        r.id = Invoices.selectedInvoice.id /\ r.status = "draft"
  /\ \E i \in 1..Len(Invoices.invoices) :
        /\ Invoices.invoices[i].id = Invoices.selectedInvoice.id
        /\ Invoices.invoices[i].status = "paid"

\* The text values of `texts` hold v.
Contains(texts, v) == \E i \in 1..Len(texts) : texts[i] = v

\* `part` stands in `texts` right after the text `label`.
Follows(texts, label, part) ==
  \E i \in 1..Len(texts) :
     /\ texts[i] = label
     /\ i + Len(part) <= Len(texts)
     /\ SubSeq(texts, i + 1, i + Len(part)) = part

\* The day the text after `label` shows.
DayAfter(texts, label) ==
  LET i == CHOOSE i \in 1..Len(texts) : texts[i] = label IN texts[i + 1].day

\* The two sizes of each kind of document, where both are rendered.
BothSizes ==
  { d \in { rendering.documents.pdf, rendering.documents.settingsPdf,
            rendering.documents.print } :
      d["A4"] # None /\ d["A5"] # None }

\* C13: the A4 and the A5 rendering of the same invoice, client, profile and
\* items hold the same sequence of text values; they differ in the paper
\* size and the style metrics alone.
C13_SameTextsInBothSizes ==
  rendering # None =>
    \A d \in BothSizes :
       /\ d["A4"].texts = d["A5"].texts
       /\ [d["A4"] EXCEPT !.size = "A5", !.styles = d["A5"].styles] = d["A5"]

\* Both PDFs of an invoice with two items and notes are rendered.
C13_Witness ==
  /\ rendering # None
  /\ rendering.documents.pdf["A4"] # None
  /\ rendering.documents.pdf["A5"] # None
  /\ rendering.documents.pdf["A4"].styles # rendering.documents.pdf["A5"].styles
  /\ Len(rendering.items) = 2
  /\ rendering.invoice.notes = "thanks"

\* The PDFs and the on-screen content rendered so far, as text sequences.
RenderedTexts ==
  { rendering.documents.pdf[f].texts :
      f \in { g \in Formats : rendering.documents.pdf[g] # None } }
  \cup (IF rendering.documents.content # None
        THEN { rendering.documents.content } ELSE {})

\* C14: a rendered document holds the issuer (the company name, or the full
\* name without one), the invoice number, the status, the client's name and
\* email, the issue and the due date, one row of four cells per item in the
\* order of the items, and the subtotal, tax and total; it holds the notes
\* exactly when the notes are not empty.
C14_DocumentReproducesTheInvoice ==
  rendering # None =>
    \A texts \in RenderedTexts :
       LET invoice == rendering.invoice
           client  == rendering.client
           profile == rendering.profile
       IN  /\ Contains(texts, Text(IF profile.company_name = Null
                                   THEN profile.full_name
                                   ELSE profile.company_name))
           /\ Contains(texts, [ number |-> invoice.invoice_number ])
           /\ \/ Contains(texts, Text(ToUpperCase(invoice.status)))
              \/ Contains(texts, Text(Capitalised(invoice.status)))
           /\ Contains(texts, Text(client.name)) /\ Contains(texts, Text(client.email))
           /\ DayAfter(texts, Text("Issue Date:")) = invoice.issue_date
           /\ DayAfter(texts, Text("Due Date:")) = invoice.due_date
           /\ Follows(texts, Text("Amount"), ItemCells(rendering.items))
           /\ Len(texts) - 4 * Len(rendering.items)
                \in { Len(InvoicePDF(invoice, client, profile, <<>>, "A4", 0).texts),
                      Len(InvoiceViewer_content(invoice, client, profile, <<>>, 0)) }
           /\ Follows(texts, Text("Amount"),
                      ItemCells(rendering.items) \o TotalsTexts(invoice))
           /\ (\/ Contains(texts, Text("Notes"))
               \/ Contains(texts, Text("NOTES:")))
                <=> (invoice.notes # Null /\ invoice.notes # "")
           /\ (invoice.notes # Null /\ invoice.notes # "")
                => \/ Follows(texts, Text("Notes"), << Text(invoice.notes) >>)
                   \/ Follows(texts, Text("NOTES:"), << Text(invoice.notes) >>)

\* C15: when the PDF of a download was rejected, or the print window could
\* not be opened, an error is on screen.
C15_RenderFailureIsSurfaced ==
  (browser.unhandledrejection \/ browser.printWindow = "null")
    => ErrorsShown # {}

\* A save of the new-invoice form or of the editor has failed in this step:
\* its request returned and the form stays mounted with no request left.
SaveHasFailed ==
  /\ request # None /\ request' = None
  /\ \/ /\ request.op \in { "NewInvoice.insert_invoice", "NewInvoice.insert_items" }
        /\ NewInvoice' # None
     \/ /\ request.op \in { "Invoices.update_invoice", "Invoices.delete_items",
                            "Invoices.insert_items" }
        /\ InvoiceEditor' # None

\* C16: after a backend request of a save has failed, an error message is
\* on screen.
C16_BackendErrorIsShown ==
  [][ SaveHasFailed => ErrorsShown' # {} ]_vars

\* Every invoice has its client and every item has its invoice.
ForeignKeysHold ==
  /\ \A i \in db_invoices : \E c \in db_clients : c.id = i.client_id
  /\ \A k \in 1..Len(db_invoice_items) :
        \E i \in db_invoices : i.id = db_invoice_items[k].invoice_id

\* C17: every stored invoice references a stored client and every stored
\* item a stored invoice; a step that removes a client removes the invoices
\* of that client, and a step that removes an invoice removes its items.
C17_ReferentialIntegrity ==
  [][ /\ ForeignKeysHold'
      /\ \A c \in db_clients :
           (\A d \in db_clients' : d.id # c.id)
             => \A i \in db_invoices' : i.client_id # c.id
      /\ \A i \in db_invoices :
           (\A j \in db_invoices' : j.id # i.id)
             => \A k \in 1..Len(db_invoice_items') :
                   db_invoice_items'[k].invoice_id # i.id ]_vars

\* A client with an invoice that has an item.
C17_Witness ==
  \E c \in db_clients : \E i \in db_invoices :
     /\ i.client_id = c.id
     /\ \E k \in 1..Len(db_invoice_items) :
          db_invoice_items[k].invoice_id = i.id

\* The rows of the four tables other users than uid own.
RowsOfOthers(uid, profiles, clients, invoices, items) ==
  [ profiles |-> { r \in profiles : r.id # uid },
    clients  |-> { r \in clients : r.user_id # uid },
    invoices |-> { r \in invoices : r.user_id # uid },
    items    |-> SelectSeq(items,
                   LAMBDA r : \E i \in invoices :
                                 i.id = r.invoice_id /\ i.user_id # uid) ]

\* C18: a request of a user neither reads nor creates, changes or removes a
\* row another user owns.
C18_RowLevelIsolation ==
  [][ \A uid \in Users :
        /\ Backend_select(uid) =>
             RowsOfOthers(uid,
               IF reply'.table = "profiles" THEN reply'.rows ELSE {},
               IF reply'.table = "clients" THEN reply'.rows ELSE {},
               IF reply'.table = "invoices" THEN reply'.rows ELSE {},
               <<>>)
             = [ profiles |-> {}, clients |-> {}, invoices |-> {},
                 items |-> <<>> ]
        /\ Backend_write(uid) =>
             RowsOfOthers(uid, db_profiles', db_clients', db_invoices',
                          db_invoice_items')
             = RowsOfOthers(uid, db_profiles, db_clients, db_invoices,
                            db_invoice_items) ]_vars

\* C19: the user has at most one profile row, and no loadProfile of any
\* session has ended in a duplicate-key error (23505).
C19_OneProfilePerUser ==
  Settings # None =>
    /\ Cardinality({ r \in db_profiles : r.id = User }) <= 1
    /\ \A s \in Sessions : Settings[s].logged # "23505"

\* Both sessions have seen that there is no profile; the second has
\* upserted its row, and the upsert of the first is still to arrive.
C19_Witness ==
  /\ Settings # None
  /\ Settings[1].pc = "upsert"
  /\ Settings[2].pc = "done" /\ Settings[2].profile # None
  /\ Settings[2].logged = ""
  /\ \E r \in db_profiles : r.id = User

\* The requests that write a clients row.
ClientWrites == { "Clients.update", "Clients.insert", "NewInvoice.insert_client" }

\* The values of a clients row, stored or sent, are those of a named client:
\* name and email are non-empty, and no optional field is the empty string.
NamedClient(values) ==
  /\ Truthy(values.name)
  /\ Truthy(values.email)
  /\ \A field \in { "company", "address", "phone" } : values[field] # ""

\* C20: every client row written by the application has a non-empty name
\* and a non-empty email, Clients.handleSubmit and
\* NewInvoice.handleCreateClient send no request when either is empty, and
\* company, address and phone are stored as null when left empty.
C20_ClientRowsAreNamed ==
  /\ \A r \in db_clients : NamedClient(r)
  /\ (request # None /\ request.op \in ClientWrites) => NamedClient(request.values)

\* A client is stored whose company was left empty and whose phone was typed.
C20_Witness ==
  \E r \in db_clients : r.name = "n" /\ r.company = Null /\ r.phone = "x"

\* C21: a file is saved only by a download the viewer's menu started, with
\* the invoice, its client and the profile loaded, and a document is
\* printed only by the viewer's print menu; the steps of a download and of
\* a print leave the page's list, selected invoice, items, client and
\* profile and every backend row as they were.
C21_ExportIsAPureSideEffect ==
  [][ /\ (InvoiceViewer_onDownload \/ Invoices_downloaded \/ InvoiceViewer_onPrint)
           => UNCHANGED << Invoices, db_invoices, db_invoice_items,
                           db_clients, db_profiles >>
      /\ (request' # request /\ request' # None
             /\ request'.op = "downloadInvoicePDF")
           => /\ InvoiceViewer_onDownload
              /\ Invoices.selectedInvoice # None
              /\ Invoices.client # None /\ Invoices.profile # None
      /\ browser'.saved # browser.saved
           => request # None /\ request.op = "downloadInvoicePDF"
      /\ browser'.printed # browser.printed => InvoiceViewer_onPrint ]_vars

\* An invoice has been downloaded and printed, and is still in the viewer.
C21_Witness ==
  /\ Invoices_viewerShown
  /\ \E f \in browser.saved : f.id = Invoices.selectedInvoice.id
  /\ browser.printed # {}
  /\ request = None

\* The viewer or the editor has been opened in this step.
ViewerOpened ==
  /\ Invoices # None /\ Invoices' # None
  /\ Invoices'.selectedInvoice # None /\ Invoices'.client # None
  /\ Invoices'.profile # None
  /\ Invoices.selectedInvoice = None

EditorOpened == InvoiceEditor = None /\ InvoiceEditor' # None

\* C22: a viewer that opens on an invoice is given the stored line items of
\* that invoice and the client the invoice names, and so is an editor that
\* opens, whether the requests of loadInvoiceDetails succeeded or failed.
C22_DetailsAreThoseOfTheInvoice ==
  [][ /\ ViewerOpened
         => /\ Invoices'.invoiceItems = SelectItems(Invoices'.selectedInvoice.id)
            /\ Invoices'.client.id = Invoices'.selectedInvoice.client_id
      /\ EditorOpened
         => /\ InvoiceEditor'.items = SelectItems(Invoices'.editingInvoice.id)
            /\ Invoices'.client.id = Invoices'.editingInvoice.client_id ]_vars

\* C23: the viewer's invoice is set, from null, only by handleViewInvoice:
\* a closed viewer stays closed until the user views an invoice, also when
\* a status update that was in flight returns.
C23_ClosedViewerStaysClosed ==
  [][ (/\ Invoices # None /\ Invoices' # None
       /\ Invoices.selectedInvoice = None
       /\ Invoices'.selectedInvoice # None)
      => Invoices_handleViewInvoice ]_vars

\* C24: a delete the user declines at confirm() sends no request and leaves
\* the backend, the page's list and the open viewer as they were, from the
\* invoice table, from the viewer and from the client list.
C24_DeclinedDeleteChangesNothing ==
  [][ (\/ Invoices_onDeleteAnswered(FALSE)
       \/ InvoiceViewer_onDeleteAnswered(FALSE)
       \/ Clients_handleDeleteAnswered(FALSE))
      => UNCHANGED << request, db_invoices, db_invoice_items, db_clients,
                      Invoices, Clients >> ]_vars

\* The ids of the items of a form are pairwise distinct.
DistinctIds(items) ==
  \A i, j \in 1..Len(items) : items[i].id = items[j].id => i = j

\* C25: the line items of the new-invoice form and of the invoice editor
\* have pairwise distinct ids, after any addItem and removeItem calls, with
\* a clock that need not advance between two addItem calls.
C25_ItemIdsAreDistinct ==
  /\ NewInvoice # None => DistinctIds(NewInvoice.items)
  /\ InvoiceEditor # None => DistinctIds(InvoiceEditor.items)

\* The requests of handleSaveInvoice.
SaveRequests ==
  { "Invoices.update_invoice", "Invoices.delete_items", "Invoices.insert_items" }

\* The stored items of the invoices other than `id`, in their order.
ItemsOfOthers(items, id) == SelectSeq(items, LAMBDA r : r.invoice_id # id)

\* C26: a request of an InvoiceEditor save, when it returns, leaves the
\* status, the owner and the id of every invoice as they were and leaves
\* every other invoice and the items of every other invoice unchanged; the
\* update it sends names no status, invoice_number, user_id or id.
C26_SaveChangesOnlyTheEditedFields ==
  [][ (request # None /\ request.op \in SaveRequests)
      => /\ Cardinality(db_invoices') = Cardinality(db_invoices)
         /\ \A r \in db_invoices :
              \E q \in db_invoices' :
                 /\ q.id = r.id /\ q.status = r.status /\ q.user_id = r.user_id
                 /\ r.id # Invoices.editingInvoice.id => q = r
         /\ ItemsOfOthers(db_invoice_items', Invoices.editingInvoice.id)
              = ItemsOfOthers(db_invoice_items, Invoices.editingInvoice.id)
         /\ request.op = "Invoices.update_invoice"
              => DOMAIN request.data
                   \cap { "status", "invoice_number", "user_id", "id" } = {} ]_vars

\* The save of an edit of invoice 1 has succeeded: its tax rate is changed,
\* it is still sent, and invoice 2 has its two items.
C26_Witness ==
  /\ request = None /\ saves = 1 /\ InvoiceEditor = None
  /\ \E r \in db_invoices :
        r.id = 1 /\ r.tax_rate # 10 * Hundredths /\ r.status = "sent"
  /\ Len(SelectItems(2)) = 2
  /\ Len(SelectItems(1)) = 1

\* The handleSave of session s ends in this step with a profile loaded: its
\* update was sent and returned, and the loadProfile it awaited has set the
\* profile or kept the one it had.
SaveCompleted(s) ==
  /\ Settings[s].saving
  /\ Settings[s].pc \in { "select", "upsert" }
  /\ Settings'[s].pc = "done"
  /\ Settings'[s].profile # None

\* C27: when a handleSave of the Settings page has completed and no error
\* was reported, the stored profile of the user holds the full name that was
\* submitted and the form shows it, also when there was no profile row at
\* the time of the save.
C27_SavedProfileIsStored ==
  [][ \A s \in Sessions :
        (SaveCompleted(s) /\ Settings'[s].logged = Settings[s].logged)
        => /\ \E r \in db_profiles' :
                 r.id = User /\ r.full_name = Settings[s].sent
           /\ Settings'[s].full_name = Settings[s].sent ]_vars

\* With the modal closed, no client is being edited and the form is blank.
ClosedModalIsBlank ==
  (Clients # None /\ ~Clients.showModal)
    => Clients.editingClient = None /\ Clients.clientForm = ClientForm_empty

\* C28: on the Clients page a closed modal has no client being edited and a
\* blank form; so "Add Client" opens the modal in create mode, with a blank
\* form, and handleSubmit sends an update only for the client handleEdit
\* was called on, and an insert otherwise.
C28_ClosedModalIsInCreateMode ==
  /\ []ClosedModalIsBlank
  /\ [][ /\ Clients_onAddClient
            => /\ Clients'.showModal
               /\ Clients'.editingClient = None
               /\ Clients'.clientForm = ClientForm_empty
         /\ (request = None /\ request' # None /\ request'.op = "Clients.update")
            => /\ Clients.editingClient # None
               /\ request'.id = Clients.editingClient.id
         /\ (request = None /\ request' # None /\ request'.op = "Clients.insert")
            => Clients.editingClient = None ]_vars

\* The update of an edited client has been sent after an earlier client
\* was added through the modal.
C28_Witness ==
  /\ request # None /\ request.op = "Clients.update"
  /\ Clients.showModal /\ Clients.editingClient # None
  /\ request.values.company = "x" /\ Clients.editingClient.company = Null

\* The busy flags of the forms; a form that is not mounted is not busy.
AuthForm_busy == AuthForm # None /\ AuthForm.loading

Settings_busy(s) == Settings # None /\ Settings[s].saving

NewInvoice_busy == NewInvoice # None /\ NewInvoice.loading

InvoiceEditor_busy == InvoiceEditor # None /\ InvoiceEditor.loading

\* C29: when every backend request eventually returns, AuthForm.loading,
\* Settings.saving, NewInvoice.loading and InvoiceEditor.loading, once set,
\* are eventually false again, whether the requests succeeded or failed.
C29_BusyFlagsAreCleared ==
  /\ AuthForm_busy ~> ~AuthForm_busy
  /\ \A s \in Sessions : Settings_busy(s) ~> ~Settings_busy(s)
  /\ NewInvoice_busy ~> ~NewInvoice_busy
  /\ InvoiceEditor_busy ~> ~InvoiceEditor_busy

\* The editor's save has failed and its flag is cleared, with the editor
\* still open.
C29_Witness ==
  /\ InvoiceEditor # None /\ ~InvoiceEditor.loading
  /\ saves = 1 /\ request = None

\* The cents toFixed(2) shows for the amounts of a summary add up.
ShownAmountsAddUp(summary) ==
  DollarsOfMoney(summary.total).cents
    = DollarsOfMoney(summary.subtotal).cents
      + DollarsOfMoney(summary.taxAmount).cents

\* C30: in the summary of the new-invoice form and of the invoice editor,
\* the total shown with two fractional digits is the subtotal shown plus
\* the tax amount shown.
C30_ShownTotalIsShownSubtotalPlusTax ==
  /\ (NewInvoice # None /\ NewInvoice.summary # None)
        => ShownAmountsAddUp(NewInvoice.summary)
  /\ (InvoiceEditor # None /\ InvoiceEditor.summary # None)
        => ShownAmountsAddUp(InvoiceEditor.summary)

====
